---- MODULE Spec2Model ----
(***************************************************************************)
(* Model of ArbitrageEngine (funding_arbitrage_bot/core/arbitrage_engine.py)*)
(* Venue A is Backpack (bp), venue B is Hyperliquid (hl).                   *)
(*                                                                         *)
(* Units: funding rates are integers in units of 1e-5; price differences   *)
(* are in units of 0.1 percent; slippage is in units of 0.01 percent.      *)
(* A venue position is its signed net quantity: 0 is "no position", a      *)
(* positive value a long of that size, a negative value a short.           *)
(***************************************************************************)
EXTENDS Integers, Sequences, FiniteSets, TLC

VARIABLES
    posA,                \* venue A truth: symbol -> net quantity
    posB,                \* venue B truth: symbol -> net quantity
    funding_diff_signs,  \* self.funding_diff_signs (memory)
    price_diff_signs,    \* self.price_diff_signs (memory only)
    file,                \* content of data/funding_diff_signs.json
    pc,                  \* position of the scheduler task
    idx,                 \* loop index (symbol list, candidate lists)
    bp_positions,        \* the cycle's position snapshot of venue A
    hl_positions,        \* the cycle's position snapshot of venue B
    open_candidates,     \* the cycle's open batch
    close_candidates,    \* the cycle's close batch
    call,                \* locals of the executor call in progress
    orders,              \* orders sent by the executor call in progress
    kills,               \* number of times the process was killed
    is_running,          \* self.is_running
    events               \* what the scheduler has done in the cycle, in order

vars == <<posA, posB, funding_diff_signs, price_diff_signs, file, pc, idx,
          bp_positions, hl_positions, open_candidates, close_candidates,
          call, orders, kills, is_running, events>>

----------------------------------------------------------------------------
\* Bounds of the model

MaxKills == 1

\* longest side of an orderbook drawn level by level
MaxLevels == 2

----------------------------------------------------------------------------
\* Configuration and input domains

Symbols == <<"BTC", "ETH">>

Syms == {Symbols[i] : i \in 1..Len(Symbols)}

NoSign == 0 - 9

\* <<funding rate of venue A (8h), raw funding rate of venue B (1h)>>
FundingPairs == {<<1, 1>>, <<0, 0 - 1>>, <<0 - 1, 0>>, <<0, 0>>, <<9, 1>>}

HlPrices == {100}

BpPrices == {99, 100, 101}

SlippageValues == {10, 30}

FundingPeriods == 8

max_positions_count == 1

max_position_size == 2

min_volume == 1

max_slippage_percent == 15

max_close_slippage_percent == 25

min_funding_diff == 1

close_min_funding_diff == 1

min_price_diff_percent == 2

max_price_diff_percent == 10

min_profit_percent == 1

open_condition_type == "funding_only"

close_condition_type == "any"

funding_diff_sign_change == TRUE

price_diff_sign_change == FALSE

ignore_high_slippage == FALSE

ignore_close_slippage == FALSE

open_check_direction_consistency == FALSE

close_check_direction_consistency == FALSE

----------------------------------------------------------------------------
\* Helpers

Abs(x) == IF x < 0 THEN 0 - x ELSE x

EmptySigns == [s \in Syms |-> NoSign]

Flat == [s \in Syms |-> 0]

\* utils.helpers.calculate_funding_diff: normalises the 1-hour rate of venue
\* B to the 8-hour period and returns the difference and its sign.
calculate_funding_diff(bp_funding, hl_funding) ==
    LET diff == bp_funding - hl_funding * FundingPeriods
    IN  [diff |-> diff, sign |-> IF diff > 0 THEN 1 ELSE 0 - 1]

\* price_diff_percent = (bp_price - hl_price) / hl_price * 100, in 0.1 percent
PriceDiffPercent(bp_price, hl_price) ==
    ((bp_price - hl_price) * 1000) \div hl_price

PriceDiffSign(price_diff_percent) ==
    IF price_diff_percent > 0 THEN 1 ELSE 0 - 1

\* The side field of a position as a venue adapter reports it.  The adapters
\* fix the vocabulary: that of the data model (LONG, SHORT) or that of the
\* orders (BUY, SELL).
SideVocabularies == {"position", "order"}

PositionSide(net, vocabulary) ==
    IF vocabulary = "position"
    THEN (IF net > 0 THEN "LONG" ELSE "SHORT")
    ELSE (IF net > 0 THEN "BUY" ELSE "SELL")

\* A value of the JSON object in the sign file, as json.load returns it: no
\* entry for the key, the integers 1, -1 and 0, a float, a string that is no
\* number, and null.
JsonValues == {"absent", "1", "-1", "0", "1.5", "'x'", "null"}

\* json.dump of one entry of the sign map
DumpSign(sign) ==
    IF sign = NoSign THEN "absent"
    ELSE IF sign = 1 THEN "1"
    ELSE IF sign = 0 THEN "0" ELSE "-1"

\* whether int(value) returns (int of a float truncates; int of a string that
\* is no number raises ValueError, int of None raises TypeError)
IntConverts(value) == value \in {"1", "-1", "0", "1.5"}

\* int(value)
IntOf(value) == IF value = "-1" THEN 0 - 1 ELSE IF value = "0" THEN 0 ELSE 1

\* The sign file after json.dump of a sign map has completed.
SavedFile(signs) ==
    [exists |-> TRUE, parseable |-> TRUE,
     data |-> [s \in Syms |-> DumpSign(signs[s])]]

\* The sign file after open(..., 'w') and before the dump has reached it.
Truncated ==
    [exists |-> TRUE, parseable |-> FALSE, data |-> [s \in Syms |-> "absent"]]

\* No sign file: the state of the data directory before the first save.
MissingFile ==
    [exists |-> FALSE, parseable |-> FALSE, data |-> [s \in Syms |-> "absent"]]

\* The try body of _load_funding_diff_signs: os.path.exists, json.load and the
\* int() conversion of every value; raised tells whether an exception left it.
ReadSigns(f) ==
    IF ~f.exists THEN [raised |-> FALSE, signs |-> EmptySigns]
    ELSE IF ~f.parseable THEN [raised |-> TRUE, signs |-> EmptySigns]
    ELSE IF \E s \in Syms : f.data[s] # "absent" /\ ~IntConverts(f.data[s])
         THEN [raised |-> TRUE, signs |-> EmptySigns]
    ELSE [raised |-> FALSE,
          signs |-> [s \in Syms |-> IF f.data[s] = "absent" THEN NoSign
                                    ELSE IntOf(f.data[s])]]

\* _load_funding_diff_signs with the except branch left out
load_funding_diff_signs_unguarded(f) == ReadSigns(f)

\* _load_funding_diff_signs: the try body, and the except branch that logs
\* and returns the empty map
load_funding_diff_signs(f) ==
    IF ReadSigns(f).raised
    THEN [raised |-> FALSE, signs |-> EmptySigns]
    ELSE ReadSigns(f)

\* the map __init__ assigns to self.funding_diff_signs
LoadSigns(f) == load_funding_diff_signs(f).signs

----------------------------------------------------------------------------
\* Slippage analyzer (_analyze_orderbook).  Prices, sizes and notionals are
\* integers and the arithmetic is exact; the returned slippage is in units of
\* 0.01 percent, rounded down.

DefaultSlippage == 10

max_levels_checked == 10

Min(a, b) == IF a < b THEN a ELSE b

Max(a, b) == IF a > b THEN a ELSE b

\* n / d rounded down, for any d but 0
FloorDiv(n, d) == IF d > 0 THEN n \div d ELSE (0 - n) \div (0 - d)

\* The shapes of a level: the three the analyzer converts, one of these with a
\* price that is no number, and any other shape.
RecognisedShapes == {"px_sz", "price_size", "list"}

LevelShapes == RecognisedShapes \cup {"px_text", "other"}

\* whether the shape tests of the conversion loop take the level
IsConverted(level) == level.shape \in RecognisedShapes \cup {"px_text"}

\* sorted() is stable: a level goes behind the levels that sort before it or
\* equal to it
InsertLevel(sorted, level, side) ==
    LET stays(e) == IF side = "bids" THEN e.price >= level.price
                    ELSE e.price <= level.price
        n == Cardinality({i \in 1..Len(sorted) : stays(sorted[i])})
    IN  SubSeq(sorted, 1, n) \o <<level>> \o SubSeq(sorted, n + 1, Len(sorted))

RECURSIVE SortLevels(_, _)
\* bids from the highest price down, asks from the lowest price up
SortLevels(levels, side) ==
    IF levels = <<>> THEN <<>>
    ELSE InsertLevel(SortLevels(SubSeq(levels, 1, Len(levels) - 1), side),
                     levels[Len(levels)], side)

RECURSIVE FillLevels(_, _, _, _)
\* the fill loop from level i on; raised: remaining / level_price divided by 0
FillLevels(book_side, i, amount_usd, acc) ==
    IF i > Len(book_side) THEN acc
    ELSE LET level_price == book_side[i].price
             level_size == book_side[i].size
             level_value == level_price * level_size
             seen == [acc EXCEPT !.level_price = level_price]
         IN  IF acc.amount_filled + level_value >= amount_usd
             THEN IF level_price = 0
                  THEN [seen EXCEPT !.raised = TRUE]
                  ELSE [seen EXCEPT
                          !.weighted_price = @ + (amount_usd - acc.amount_filled),
                          !.amount_filled = amount_usd]
             ELSE LET taken == [seen EXCEPT
                                  !.weighted_price = @ + level_price * level_size,
                                  !.amount_filled = @ + level_value,
                                  !.levels_checked = @ + 1]
                  IN  IF taken.levels_checked >= max_levels_checked THEN taken
                      ELSE FillLevels(book_side, i + 1, amount_usd, taken)

\* the final clamp with its upper limit left out
ClampSlippageBelowOnly(slippage) == Max(1, slippage)

\* max(0.01, min(0.5, slippage))
ClampSlippage(slippage) == Max(1, Min(50, slippage))

\* the slippage of a converted, non-empty side
BookSlippage(book_side, side, amount_usd, price) ==
    LET filled == FillLevels(SortLevels(book_side, side), 1, amount_usd,
                     [amount_filled |-> 0, weighted_price |-> 0,
                      levels_checked |-> 0, level_price |-> 0, raised |-> FALSE])
        amount_filled == filled.amount_filled
        \* fill_percentage >= 80, with fill_percentage = filled / amount * 100
        mostly_filled == IF amount_usd > 0
                         THEN amount_filled * 100 >= 80 * amount_usd
                         ELSE amount_filled * 100 <= 80 * amount_usd
        \* average_price = weighted_price / (amount_filled / level_price)
        average_num == filled.weighted_price * filled.level_price
        \* (price - average_price) / price * 100 for bids, its opposite for asks
        slippage_num == IF side = "bids"
                        THEN (price * amount_filled - average_num) * 10000
                        ELSE (average_num - price * amount_filled) * 10000
        slippage_den == price * amount_filled
    IN  IF filled.raised THEN DefaultSlippage
        ELSE IF amount_filled < amount_usd /\ amount_usd = 0 THEN DefaultSlippage
        ELSE IF amount_filled < amount_usd /\ ~mostly_filled
             THEN Min(20, FloorDiv(100 * amount_usd - 100 * amount_filled, amount_usd))
        ELSE IF ~(amount_filled > 0) THEN DefaultSlippage
        ELSE IF filled.level_price = 0 \/ price = 0 THEN DefaultSlippage
        ELSE ClampSlippage(FloorDiv(Abs(slippage_num), Abs(slippage_den)))

\* _analyze_orderbook
analyze_orderbook(orderbook, side, amount_usd, price) ==
    LET book_side == SelectSeq(orderbook.levels, IsConverted)
    IN  IF orderbook.missing \/ orderbook.sides = {} THEN DefaultSlippage
        ELSE IF side \notin orderbook.sides THEN DefaultSlippage
        ELSE IF orderbook.levels = <<>> THEN DefaultSlippage
        ELSE IF \E i \in 1..Len(book_side) : book_side[i].shape = "px_text"
             THEN DefaultSlippage
        ELSE IF book_side = <<>> THEN DefaultSlippage
        ELSE BookSlippage(book_side, side, amount_usd, price)

----------------------------------------------------------------------------
\* Opportunity evaluation

has_position(sym, bp_pos, hl_pos) == bp_pos[sym] # 0 \/ hl_pos[sym] # 0

\* The distinct base symbols held on either venue in the cycle's snapshot.
position_symbols(bp_pos, hl_pos) ==
    {s \in Syms : bp_pos[s] # 0} \cup {s \in Syms : hl_pos[s] # 0}

Combine(condition_type, price_condition_met, funding_condition_met, direction_consistent) ==
    CASE condition_type = "any" ->
            (price_condition_met \/ funding_condition_met) /\ direction_consistent
      [] condition_type = "all" ->
            price_condition_met /\ funding_condition_met /\ direction_consistent
      [] condition_type = "funding_only" ->
            funding_condition_met /\ direction_consistent
      [] condition_type = "price_only" ->
            price_condition_met /\ direction_consistent
      [] OTHER -> FALSE

\* The decision of _check_open_conditions_without_execution once the
\* position, slippage and cap guards have passed: should_open
open_decision(condition_type, check_direction_consistency, price_diff_percent, funding_diff) ==
    LET price_condition_met ==
            /\ min_price_diff_percent <= Abs(price_diff_percent)
            /\ Abs(price_diff_percent) <= max_price_diff_percent
        funding_condition_met == Abs(funding_diff) >= min_funding_diff
        direction_consistent ==
            IF check_direction_consistency /\ price_condition_met
               /\ funding_condition_met
            THEN PriceDiffSign(price_diff_percent)
                    = (IF funding_diff > 0 THEN 1 ELSE 0 - 1)
            ELSE TRUE
    IN  Combine(condition_type, price_condition_met, funding_condition_met,
                direction_consistent)

\* no total_slippage entry in the symbol's market data
NoSlippage == 0 - 1

\* the value the guards take when the market data holds no total_slippage
slippage_default == 50

\* DataManager.get_data before the evaluation of a symbol: the symbol's
\* snapshot is updated in place and keeps the entries the engine added to it,
\* or it is replaced by a new snapshot without them
SnapshotRefreshes == {"in_place", "replaced"}

refreshed_entry(entry, refresh) ==
    IF refresh = "replaced" THEN NoSlippage ELSE entry

\* The slippage block of _collect_arbitrage_opportunity: the total_slippage
\* entry it leaves in the symbol's market data.  The sum of the two legs is
\* stored when both orderbooks were fetched and the symbol is in the market
\* data; an exception is logged and the entry is left as it was.
SlippageOutcomes == {"computed", "orderbook_error", "no_snapshot"}

collect_slippage(entry, outcome, long_slippage, short_slippage) ==
    IF outcome = "computed" THEN long_slippage + short_slippage
    ELSE IF outcome = "no_snapshot" THEN NoSlippage
    ELSE entry

\* market_data.get(symbol, {}).get("total_slippage", 0.5)
guard_slippage(entry) ==
    IF entry = NoSlippage THEN slippage_default ELSE entry

\* the global cap taken as a strict limit
positions_cap_exceeded(current_positions_count) ==
    current_positions_count > max_positions_count

\* current_positions_count >= max_positions_count
positions_cap_reached(current_positions_count) ==
    current_positions_count >= max_positions_count

\* _check_open_conditions_without_execution: [should_open, available_size]
check_open_conditions(sym, price_diff_percent, funding_diff, bp_pos, hl_pos, total_slippage) ==
    LET no == [should_open |-> FALSE, available_size |-> 0]
        slippage_condition_met ==
            ignore_high_slippage \/ total_slippage <= max_slippage_percent
    IN  IF has_position(sym, bp_pos, hl_pos) THEN no
        ELSE IF ~slippage_condition_met THEN no
        ELSE IF positions_cap_reached(Cardinality(position_symbols(bp_pos, hl_pos)))
             THEN no
        ELSE IF 0 >= max_position_size THEN no
        ELSE [should_open |-> open_decision(open_condition_type,
                                  open_check_direction_consistency,
                                  price_diff_percent, funding_diff),
              available_size |-> max_position_size - 0]

\* the comparison sign taken from the current price difference at every
\* evaluation, stored or not
close_price_signs_overwriting(sym, price_diff_percent, fsigns, psigns) ==
    LET current == PriceDiffSign(price_diff_percent)
    IN  [entry |-> current, psigns |-> [psigns EXCEPT ![sym] = current]]

\* The price sign _check_close_conditions_without_execution compares against,
\* and the price sign map it leaves behind (a missing sign is recaptured when
\* the symbol has a stored funding sign).
close_price_signs(sym, price_diff_percent, fsigns, psigns) ==
    LET current == PriceDiffSign(price_diff_percent)
        recapture == psigns[sym] = NoSign /\ fsigns[sym] # NoSign
    IN  [entry |-> IF recapture THEN current ELSE psigns[sym],
         psigns |-> IF recapture THEN [psigns EXCEPT ![sym] = current] ELSE psigns]

\* the configuration read under strategy.close_conditions
close_conditions ==
    [condition_type |-> close_condition_type,
     funding_diff_sign_change |-> funding_diff_sign_change,
     price_diff_sign_change |-> price_diff_sign_change,
     check_direction_consistency |-> close_check_direction_consistency,
     ignore_close_slippage |-> ignore_close_slippage]

\* the close price condition with the threshold included in the converged case
close_price_condition_at_most(price_sign_change, price_sign_changed, price_diff_percent) ==
    IF price_sign_change
    THEN price_sign_changed /\ Abs(price_diff_percent) >= min_profit_percent
    ELSE Abs(price_diff_percent) <= min_profit_percent

\* price_condition_met of _check_close_conditions_without_execution
close_price_condition(price_sign_change, price_sign_changed, price_diff_percent) ==
    IF price_sign_change
    THEN price_sign_changed /\ Abs(price_diff_percent) >= min_profit_percent
    ELSE Abs(price_diff_percent) < min_profit_percent

\* the stored sign compared with the current one, stored or not
funding_sign_differs(entry_funding_diff_sign, funding_diff_sign) ==
    entry_funding_diff_sign # funding_diff_sign

\* funding_sign_changed of _check_close_conditions_without_execution: False
\* when no funding sign is stored for the symbol
close_funding_sign_changed(entry_funding_diff_sign, funding_diff_sign) ==
    entry_funding_diff_sign # NoSign /\ entry_funding_diff_sign # funding_diff_sign

\* _check_close_conditions_without_execution under a configuration: the
\* decision and the conditions it logs
check_close_conditions_with(config, sym, price_diff_percent, funding_diff, funding_diff_sign, fsigns, psigns, total_slippage) ==
    LET entry_funding_diff_sign == fsigns[sym]
        funding_sign_changed ==
            close_funding_sign_changed(entry_funding_diff_sign, funding_diff_sign)
        entry_price_diff_sign ==
            close_price_signs(sym, price_diff_percent, fsigns, psigns).entry
        price_sign_changed ==
            entry_price_diff_sign # NoSign
            /\ entry_price_diff_sign # PriceDiffSign(price_diff_percent)
        slippage_condition_met ==
            config.ignore_close_slippage
            \/ total_slippage <= max_close_slippage_percent
        funding_condition_met ==
            /\ funding_sign_changed /\ config.funding_diff_sign_change
            /\ Abs(funding_diff) >= close_min_funding_diff
        price_condition_met ==
            close_price_condition(config.price_diff_sign_change,
                                  price_sign_changed, price_diff_percent)
        direction_consistent ==
            IF config.check_direction_consistency /\ price_condition_met
               /\ funding_condition_met
            THEN PriceDiffSign(price_diff_percent)
                    = (IF funding_diff > 0 THEN 1 ELSE 0 - 1)
            ELSE TRUE
    IN  [should_close |->
            IF ~slippage_condition_met THEN FALSE
            ELSE Combine(config.condition_type, price_condition_met,
                         funding_condition_met, direction_consistent),
         slippage_condition_met |-> slippage_condition_met,
         funding_condition_met |-> funding_condition_met,
         price_condition_met |-> price_condition_met,
         price_sign_changed |-> price_sign_changed]

\* _check_close_conditions_without_execution: should_close
check_close_conditions(sym, price_diff_percent, funding_diff, funding_diff_sign, fsigns, psigns, total_slippage) ==
    check_close_conditions_with(close_conditions, sym, price_diff_percent,
        funding_diff, funding_diff_sign, fsigns, psigns,
        total_slippage).should_close

\* candidate_lists with the close branch taken for any held leg
candidate_lists_any_leg(has_pos, both_legs, should_open, should_close) ==
    IF ~has_pos
    THEN (IF should_open THEN {"open"} ELSE {})
    ELSE (IF should_close THEN {"close"} ELSE {})

\* candidate_lists with the close branch also appending to the open list
candidate_lists_both(has_pos, both_legs, should_open, should_close) ==
    IF ~has_pos
    THEN (IF should_open THEN {"open"} ELSE {})
    ELSE (IF both_legs /\ should_close THEN {"open", "close"} ELSE {})

\* The branch of _collect_arbitrage_opportunity that appends a candidate: the
\* set of lists ("open", "close") the symbol is appended to.
candidate_lists(has_pos, both_legs, should_open, should_close) ==
    IF ~has_pos
    THEN (IF should_open THEN {"open"} ELSE {})
    ELSE (IF both_legs /\ should_close THEN {"close"} ELSE {})

----------------------------------------------------------------------------
\* Paired executor: pure parts

\* max_position_size of a trading pair that configures none (None)
NoLimit == 0 - 1

\* the size with the cap alone
open_size_without_floor(available_size, minimum, maximum) ==
    IF maximum # NoLimit /\ available_size > maximum THEN maximum ELSE available_size

\* size clamp of _open_position: raised to min_volume, then cut to
\* max_position_size when one is configured
open_size(available_size, minimum, maximum) ==
    LET raised == IF available_size < minimum THEN minimum ELSE available_size
    IN  IF maximum # NoLimit /\ raised > maximum THEN maximum ELSE raised

\* the clamp under the configuration of the model (available_size is never
\* None for a candidate)
OpenSize(available_size) == open_size(available_size, min_volume, max_position_size)

\* OpenSide with the comparison taken as >= 0
OpenSideNonNegative(funding) == IF funding >= 0 THEN "SELL" ELSE "BUY"

\* bp_side / hl_side of _open_position
OpenSide(funding) == IF funding > 0 THEN "SELL" ELSE "BUY"

\* close_side of the unwind order on venue B
OppositeSide(side) == IF side = "SELL" THEN "BUY" ELSE "SELL"

\* bp_close_side / hl_close_side of _close_position
CloseSide(position_side) == IF position_side = "BUY" THEN "SELL" ELSE "BUY"

\* the effect on a venue's net quantity of an order that fills qty
ApplyOrder(net, side, qty) == IF side = "BUY" THEN net + qty ELSE net - qty

\* a leg counted as changed whenever the two queries differ
leg_differs(pre, post, size) == pre # post

\* bp_position_changed / hl_position_changed of _open_position
OpenLegChanged(pre, post, size) ==
    \/ pre = 0 /\ post # 0
    \/ pre # 0 /\ post # 0 /\ Abs(Abs(post) - Abs(pre)) * 10 >= 8 * size

\* The values an order call hands to the join: a result that reports success,
\* a result that reports an error, None, an exception, and a result without
\* a success flag whose raw payload mentions "filled".
Responses == {"success", "error_value", "none", "exception", "ambiguous"}

\* bp_success of _open_position
bp_order_success(response) == response \notin {"exception", "none"}

\* hl_success of _open_position and of _close_position
hl_order_success(response) == response \in {"success", "ambiguous"}

\* the outcome branch taken only for legs whose order also reported success
open_outcome_by_response(bp_position_changed, hl_position_changed, bp_success, hl_success) ==
    IF (bp_position_changed /\ bp_success) /\ (hl_position_changed /\ hl_success)
    THEN "opened"
    ELSE IF bp_position_changed /\ bp_success THEN "unwind_a"
    ELSE IF hl_position_changed /\ hl_success THEN "unwind_b"
    ELSE "failed"

\* the outcome branch with an unwind order also when no leg was verified
open_outcome_unwinds_unverified(bp_position_changed, hl_position_changed, bp_success, hl_success) ==
    IF bp_position_changed /\ hl_position_changed THEN "opened"
    ELSE IF hl_position_changed THEN "unwind_b"
    ELSE "unwind_a"

\* the outcome branch of _open_position; bp_success and hl_success are the
\* locals computed from the order results, which the branch does not read
open_outcome(bp_position_changed, hl_position_changed, bp_success, hl_success) ==
    IF bp_position_changed /\ hl_position_changed THEN "opened"
    ELSE IF bp_position_changed /\ ~hl_position_changed THEN "unwind_a"
    ELSE IF ~bp_position_changed /\ hl_position_changed THEN "unwind_b"
    ELSE "failed"

\* a leg counted as closed only when the position is gone
leg_gone(pre, post) == pre # 0 /\ post = 0

\* bp_position_closed / hl_position_closed of _close_position
CloseLegClosed(pre, post) ==
    \/ pre # 0 /\ post = 0
    \/ pre # 0 /\ post # 0 /\ Abs(pre) > 0
       /\ (Abs(pre) - Abs(post)) * 10 >= 9 * Abs(pre)

\* the outcome branch of _close_position: the result, whether the sign entry
\* is cleared, and the venues that get an unwind order
CloseOutcome(bp_position_closed, hl_position_closed) ==
    IF bp_position_closed /\ hl_position_closed
    THEN [result |-> "true", clear |-> TRUE, unwind |-> {}]
    ELSE IF (~bp_position_closed /\ hl_position_closed)
            \/ (bp_position_closed /\ ~hl_position_closed)
    THEN [result |-> "false", clear |-> FALSE, unwind |-> {}]
    ELSE [result |-> "false", clear |-> FALSE, unwind |-> {}]

\* an entry of the cycle's record of what the scheduler has done
Event(kind, op, symbol) == [kind |-> kind, op |-> op, symbol |-> symbol]

\* a batch loop that leaves the batch when a call has not returned True
batch_stops_on_failure(i, result) ==
    IF result = "true" THEN i + 1 ELSE Len(Symbols) + 1

\* the index of the candidate a batch loop goes on with after a call: the
\* loop reads neither the value the call returned nor, inside its own
\* try/except, an exception of it
batch_next(i, result) == i + 1

\* a batch walked from its last candidate to its first
batch_item_reversed(candidates, i) == candidates[Len(candidates) + 1 - i]

\* the i-th candidate the batch loop hands to the executor
batch_item(candidates, i) == candidates[i]

\* the while condition tested at every suspension point of a paired execution
every_suspension_point == {"cycle", "open_dispatch", "open_settle"}

\* the positions of the scheduler at which the while condition is tested
loop_test_points == {"cycle"}

\* an exception in the evaluation of a symbol reaching the main loop
collect_propagates_errors == FALSE

\* _collect_arbitrage_opportunity catches every exception of its body
collect_catches_errors == TRUE

\* asyncio.gather raising the first exception of a task to its caller
raise_first_exception == FALSE

\* asyncio.gather(..., return_exceptions=True)
return_exceptions == TRUE

\* an exception of the cycle body ending start()
cycle_error_ends_loop == "stopped"

\* the except branch of the main loop: log, sleep 5 seconds, loop again
cycle_error_handler == "backoff"

NoCall ==
    [op |-> "none", symbol |-> "", exit |-> "", result |-> "none",
     candidate_funding_diff |-> 0, bp_funding |-> 0, hl_funding |-> 0,
     funding_diff |-> 0, funding_diff_sign |-> NoSign,
     bp_size |-> 0, hl_size |-> 0,
     bp_side |-> "", hl_side |-> "", held_bp_side |-> "", held_hl_side |-> "",
     pre_a |-> 0, pre_b |-> 0, post_a |-> 0, post_b |-> 0,
     bp_changed |-> FALSE, hl_changed |-> FALSE,
     bp_task |-> "none", hl_task |-> "none",
     bp_result |-> "none", hl_result |-> "none",
     signs_before |-> EmptySigns, psigns_before |-> EmptySigns,
     file_before |-> SavedFile(EmptySigns)]

\* the locals of an executor call at its entry
Enter(op, sym) ==
    [NoCall EXCEPT !.op = op, !.symbol = sym,
                   !.signs_before = funding_diff_signs,
                   !.psigns_before = price_diff_signs,
                   !.file_before = file]

Order(venue, side, size, type, kind) ==
    [venue |-> venue, side |-> side, size |-> size, type |-> type, kind |-> kind]

----------------------------------------------------------------------------
\* Initial state: after __init__ with no sign file content and flat venues

Init ==
    /\ posA = Flat
    /\ posB = Flat
    /\ file = SavedFile(EmptySigns)
    /\ funding_diff_signs = LoadSigns(file)
    /\ price_diff_signs = EmptySigns
    /\ pc = "cycle"
    /\ idx = 0
    /\ bp_positions = Flat
    /\ hl_positions = Flat
    /\ open_candidates = <<>>
    /\ close_candidates = <<>>
    /\ call = NoCall
    /\ orders = {}
    /\ kills = 0
    /\ is_running = TRUE
    /\ events = <<>>

----------------------------------------------------------------------------
\* Cycle scheduler (start)

\* top of the main loop: both position queries succeed
CycleStart ==
    /\ pc = "cycle"
    /\ is_running
    /\ bp_positions' = posA
    /\ hl_positions' = posB
    /\ open_candidates' = <<>>
    /\ close_candidates' = <<>>
    /\ idx' = 1
    /\ pc' = "collect"
    /\ events' = <<>>
    /\ UNCHANGED <<posA, posB, funding_diff_signs, price_diff_signs, file,
                   call, orders, kills, is_running>>

\* a position query raises: the cycle body is abandoned
CycleError ==
    /\ pc = "cycle"
    /\ is_running
    /\ pc' = cycle_error_handler
    /\ events' = <<Event("cycle_error", "", "")>>
    /\ UNCHANGED <<posA, posB, funding_diff_signs, price_diff_signs, file, idx,
                   bp_positions, hl_positions, open_candidates,
                   close_candidates, call, orders, kills, is_running>>

\* the 5 second sleep of the except branch
Backoff ==
    /\ pc = "backoff"
    /\ pc' = "cycle"
    /\ UNCHANGED <<posA, posB, funding_diff_signs, price_diff_signs, file, idx,
                   bp_positions, hl_positions, open_candidates,
                   close_candidates, call, orders, kills, is_running, events>>

\* The ways the body of _collect_arbitrage_opportunity runs: to its end, to
\* the return for invalid data, or to an exception raised by the data fetch or
\* by the condition check (which for a held pair comes after the price sign
\* has been recaptured).
Evaluations == {"ok", "invalid", "data_error", "condition_error"}

\* _collect_arbitrage_opportunity for the idx-th configured symbol
Collect ==
    /\ pc = "collect"
    /\ \E evaluation \in Evaluations, fundings \in FundingPairs,
          bp_price \in BpPrices, total_slippage \in SlippageValues,
          hl_price \in HlPrices, vocabulary \in SideVocabularies :
        LET sym == Symbols[idx]
            valid == evaluation \in {"ok", "condition_error"}
            raised == evaluation \in {"data_error", "condition_error"}
            bp_funding == fundings[1]
            hl_funding == fundings[2]
            adjusted_hl_funding == hl_funding * FundingPeriods
            price_diff_percent == PriceDiffPercent(bp_price, hl_price)
            fd == calculate_funding_diff(bp_funding, hl_funding)
            has_pos == has_position(sym, bp_positions, hl_positions)
            both_legs == bp_positions[sym] # 0 /\ hl_positions[sym] # 0
            open == check_open_conditions(sym, price_diff_percent, fd.diff,
                        bp_positions, hl_positions, total_slippage)
            should_close == check_close_conditions(sym, price_diff_percent,
                        fd.diff, fd.sign, funding_diff_signs, price_diff_signs,
                        total_slippage)
            lists == IF valid /\ ~raised
                     THEN candidate_lists(has_pos, both_legs, open.should_open,
                                          should_close)
                     ELSE {}
        IN  /\ open_candidates' =
                IF "open" \in lists
                THEN Append(open_candidates,
                            [symbol |-> sym, funding_diff |-> fd.diff,
                             bp_funding |-> bp_funding,
                             hl_funding |-> adjusted_hl_funding,
                             available_size |-> open.available_size])
                ELSE open_candidates
            /\ close_candidates' =
                IF "close" \in lists
                THEN Append(close_candidates,
                            [symbol |-> sym,
                             bp_side |-> PositionSide(bp_positions[sym], vocabulary),
                             hl_side |-> PositionSide(hl_positions[sym], vocabulary),
                             bp_size |-> Abs(bp_positions[sym]),
                             hl_size |-> Abs(hl_positions[sym])])
                ELSE close_candidates
            /\ price_diff_signs' =
                IF valid /\ has_pos /\ both_legs
                THEN close_price_signs(sym, price_diff_percent,
                                       funding_diff_signs, price_diff_signs).psigns
                ELSE price_diff_signs
            /\ events' = Append(events,
                    Event(IF raised THEN "evaluate_error" ELSE "evaluated",
                          "", sym))
            /\ IF raised /\ ~collect_catches_errors
               THEN idx' = idx /\ pc' = cycle_error_handler
               ELSE IF idx < Len(Symbols)
               THEN idx' = idx + 1 /\ pc' = "collect"
               ELSE idx' = 1 /\ pc' = "open"
    /\ UNCHANGED <<posA, posB, funding_diff_signs, file, bp_positions,
                   hl_positions, call, orders, kills, is_running>>

----------------------------------------------------------------------------
\* Paired executor: _open_position

\* get_data raises, or a price is None: the call ends before anything is written
OpenDataError ==
    /\ pc = "open"
    /\ idx <= Len(open_candidates)
    /\ call' = [Enter("open", batch_item(open_candidates, idx).symbol)
                    EXCEPT !.exit = "data", !.result = "false"]
    /\ orders' = {}
    /\ pc' = "open_ret"
    /\ events' = Append(events, Event("begin", "open", call'.symbol))
    /\ UNCHANGED <<posA, posB, funding_diff_signs, price_diff_signs, file, idx,
                   bp_positions, hl_positions, open_candidates,
                   close_candidates, kills, is_running>>

\* _open_position up to the pre-trade position queries: size clamp, the
\* funding sign written and saved, the price sign written, the sides chosen
OpenPrepare ==
    /\ pc = "open"
    /\ idx <= Len(open_candidates)
    /\ \E bp_price \in BpPrices, hl_price \in HlPrices, pre_ok \in BOOLEAN :
        LET c == batch_item(open_candidates, idx)
            sym == c.symbol
            size == OpenSize(c.available_size)
            fd == calculate_funding_diff(c.bp_funding, c.hl_funding)
            price_diff_sign == PriceDiffSign(PriceDiffPercent(bp_price, hl_price))
            entered == [Enter("open", sym)
                            EXCEPT !.candidate_funding_diff = c.funding_diff,
                                   !.bp_funding = c.bp_funding,
                                   !.hl_funding = c.hl_funding,
                                   !.funding_diff = fd.diff,
                                   !.funding_diff_sign = fd.sign,
                                   !.bp_size = size, !.hl_size = size,
                                   !.bp_side = OpenSide(c.bp_funding),
                                   !.hl_side = OpenSide(c.hl_funding)]
        IN  /\ funding_diff_signs' = [funding_diff_signs EXCEPT ![sym] = fd.sign]
            /\ file' = SavedFile(funding_diff_signs')
            /\ price_diff_signs' = [price_diff_signs EXCEPT ![sym] = price_diff_sign]
            /\ IF pre_ok
               THEN /\ call' = [entered EXCEPT !.pre_a = posA[sym],
                                               !.pre_b = posB[sym]]
                    /\ pc' = "open_dispatch"
               ELSE /\ call' = [entered EXCEPT !.exit = "exception",
                                               !.result = "false"]
                    /\ pc' = "open_ret"
    /\ orders' = {}
    /\ events' = Append(events, Event("begin", "open", call'.symbol))
    /\ UNCHANGED <<posA, posB, idx, bp_positions, hl_positions, open_candidates,
                   close_candidates, kills, is_running>>

\* both orders are sent and awaited in one step; each venue fills what it
\* fills, and the order results, which are only logged, are not recorded
OpenDispatch ==
    /\ pc = "open_dispatch"
    /\ \E fill_a \in {0, call.bp_size},
          fill_b \in {0, call.hl_size \div 2, call.hl_size} :
        /\ posA' = [posA EXCEPT ![call.symbol] =
                        ApplyOrder(@, call.bp_side, fill_a)]
        /\ posB' = [posB EXCEPT ![call.symbol] =
                        ApplyOrder(@, call.hl_side, fill_b)]
    /\ orders' = {Order("A", call.bp_side, call.bp_size, "MARKET", "leg"),
                  Order("B", call.hl_side, call.hl_size, "LIMIT", "leg")}
    /\ pc' = "open_settle"
    /\ events' = Append(events, Event("dispatch", "open", call.symbol))
    /\ UNCHANGED <<funding_diff_signs, price_diff_signs, file, idx,
                   bp_positions, hl_positions, open_candidates,
                   close_candidates, call, kills, is_running>>

\* after the settlement sleep: post-trade queries, the diff, the outcome and
\* the unwind of a single verified leg
OpenVerify ==
    /\ pc = "open_settle"
    /\ \E post_ok \in BOOLEAN, unwind_ok \in BOOLEAN :
        LET sym == call.symbol
            bp_changed == OpenLegChanged(call.pre_a, posA[sym], call.bp_size)
            hl_changed == OpenLegChanged(call.pre_b, posB[sym], call.hl_size)
            outcome == open_outcome(bp_changed, hl_changed,
                                    bp_order_success(call.bp_result),
                                    hl_order_success(call.hl_result))
            verified == [call EXCEPT !.post_a = posA[sym],
                                     !.post_b = posB[sym],
                                     !.bp_changed = bp_changed,
                                     !.hl_changed = hl_changed,
                                     !.exit = "verified"]
        IN  IF ~post_ok
            THEN /\ call' = [call EXCEPT !.exit = "exception", !.result = "false"]
                 /\ UNCHANGED <<posA, posB, orders>>
            ELSE IF outcome = "opened"
            THEN /\ call' = [verified EXCEPT !.result = "true"]
                 /\ UNCHANGED <<posA, posB, orders>>
            ELSE IF outcome = "unwind_a"
            THEN /\ call' = [verified EXCEPT !.result = "false"]
                 /\ orders' = orders \cup
                        {Order("A", "CLOSE", 0, "CLOSE_POSITION", "unwind")}
                 /\ posA' = IF unwind_ok THEN [posA EXCEPT ![sym] = 0] ELSE posA
                 /\ UNCHANGED posB
            ELSE IF outcome = "unwind_b"
            THEN /\ call' = [verified EXCEPT !.result = "false"]
                 /\ orders' = orders \cup
                        {Order("B", OppositeSide(call.hl_side), call.hl_size,
                               "MARKET", "unwind")}
                 /\ posB' = IF unwind_ok
                            THEN [posB EXCEPT ![sym] =
                                    ApplyOrder(@, OppositeSide(call.hl_side),
                                               call.hl_size)]
                            ELSE posB
                 /\ UNCHANGED posA
            ELSE /\ call' = [verified EXCEPT !.result = "false"]
                 /\ UNCHANGED <<posA, posB, orders>>
    /\ pc' = "open_ret"
    /\ UNCHANGED <<funding_diff_signs, price_diff_signs, file, idx,
                   bp_positions, hl_positions, open_candidates,
                   close_candidates, kills, is_running, events>>

\* back in the batch loop: the 0.5 second pacing sleep, next candidate
OpenPace ==
    /\ pc = "open_ret"
    /\ call' = NoCall
    /\ orders' = {}
    /\ idx' = batch_next(idx, call.result)
    /\ pc' = "open"
    /\ events' = Append(events, Event("return", "open", call.symbol))
    /\ UNCHANGED <<posA, posB, funding_diff_signs, price_diff_signs, file,
                   bp_positions, hl_positions, open_candidates,
                   close_candidates, kills, is_running>>

\* the open batch is exhausted
OpenBatchDone ==
    /\ pc = "open"
    /\ idx > Len(open_candidates)
    /\ idx' = 1
    /\ pc' = "close"
    /\ UNCHANGED <<posA, posB, funding_diff_signs, price_diff_signs, file,
                   bp_positions, hl_positions, open_candidates,
                   close_candidates, call, orders, kills, is_running, events>>

----------------------------------------------------------------------------
\* Paired executor: _close_position

\* The whole call.  The close sides are chosen, the price of venue A is
\* fetched and the pre-trade positions are queried; with both legs present the
\* limit price is snapped with tick_size and price_precision, names that are
\* bound nowhere in _close_position, so the NameError lands in the except
\* branch and the call returns False before any order is created.
ClosePosition ==
    /\ pc = "close"
    /\ idx <= Len(close_candidates)
    /\ \E price_ok \in BOOLEAN, pre_ok \in BOOLEAN :
        LET c == batch_item(close_candidates, idx)
            sym == c.symbol
            entered == [Enter("close", sym)
                            EXCEPT !.held_bp_side = c.bp_side,
                                   !.held_hl_side = c.hl_side,
                                   !.bp_size = c.bp_size, !.hl_size = c.hl_size,
                                   !.bp_side = CloseSide(c.bp_side),
                                   !.hl_side = CloseSide(c.hl_side),
                                   !.result = "false"]
            queried == [entered EXCEPT !.pre_a = posA[sym], !.pre_b = posB[sym]]
        IN  call' = IF ~price_ok THEN [entered EXCEPT !.exit = "price"]
                    ELSE IF ~pre_ok THEN [entered EXCEPT !.exit = "exception"]
                    ELSE IF posA[sym] = 0 \/ posB[sym] = 0
                         THEN [queried EXCEPT !.exit = "no_position"]
                    ELSE [queried EXCEPT !.exit = "NameError"]
    /\ orders' = {}
    /\ pc' = "close_ret"
    /\ events' = Append(events, Event("begin", "close", call'.symbol))
    /\ UNCHANGED <<posA, posB, funding_diff_signs, price_diff_signs, file, idx,
                   bp_positions, hl_positions, open_candidates,
                   close_candidates, kills, is_running>>

\* back in the batch loop: the 0.5 second pacing sleep, next candidate
ClosePace ==
    /\ pc = "close_ret"
    /\ call' = NoCall
    /\ orders' = {}
    /\ idx' = batch_next(idx, call.result)
    /\ pc' = "close"
    /\ events' = Append(events, Event("return", "close", call.symbol))
    /\ UNCHANGED <<posA, posB, funding_diff_signs, price_diff_signs, file,
                   bp_positions, hl_positions, open_candidates,
                   close_candidates, kills, is_running>>

\* the close batch is exhausted: sleep check_interval, then the next cycle
CycleSleep ==
    /\ pc = "close"
    /\ idx > Len(close_candidates)
    /\ idx' = 0
    /\ bp_positions' = Flat
    /\ hl_positions' = Flat
    /\ open_candidates' = <<>>
    /\ close_candidates' = <<>>
    /\ pc' = "cycle"
    /\ UNCHANGED <<posA, posB, funding_diff_signs, price_diff_signs, file,
                   call, orders, kills, is_running, events>>

----------------------------------------------------------------------------
\* The process is killed and started again: __init__ reloads the sign file,
\* every other attribute starts afresh, the venues keep their positions.

Restarted ==
    /\ kills < MaxKills
    /\ kills' = kills + 1
    /\ funding_diff_signs' = LoadSigns(file')
    /\ price_diff_signs' = EmptySigns
    /\ pc' = "cycle"
    /\ idx' = 0
    /\ bp_positions' = Flat
    /\ hl_positions' = Flat
    /\ open_candidates' = <<>>
    /\ close_candidates' = <<>>
    /\ call' = NoCall
    /\ orders' = {}
    /\ is_running' = TRUE
    /\ events' = <<>>
    /\ UNCHANGED <<posA, posB>>

\* killed anywhere outside _save_funding_diff_signs
Kill ==
    /\ file' = file
    /\ Restarted

\* killed inside _save_funding_diff_signs of _open_position, after
\* open(file, 'w') has truncated the file and before the dump reaches the disk
KillDuringSave ==
    /\ pc = "open"
    /\ idx <= Len(open_candidates)
    /\ file' = Truncated
    /\ Restarted

----------------------------------------------------------------------------

Next ==
    \/ CycleStart
    \/ CycleError
    \/ Backoff
    \/ Collect
    \/ OpenDataError
    \/ OpenPrepare
    \/ OpenDispatch
    \/ OpenVerify
    \/ OpenPace
    \/ OpenBatchDone
    \/ ClosePosition
    \/ ClosePace
    \/ CycleSleep
    \/ Kill
    \/ KillDuringSave

Spec == Init /\ [][Next]_vars

----------------------------------------------------------------------------
\* The scheduler with a stop signal.  Nothing in arbitrage_engine.py clears
\* is_running; the caller of the engine does.  The stop signals taken here
\* are those that arrive while a paired execution is in flight: after the
\* call has queried the pre-trade positions and before it has verified.

in_flight_points == {"open_dispatch", "open_settle"}

\* the running flag is cleared from outside the scheduler task
StopSignal ==
    /\ is_running
    /\ pc \in in_flight_points
    /\ is_running' = FALSE
    /\ events' = Append(events, Event("stop", "", ""))
    /\ UNCHANGED <<posA, posB, funding_diff_signs, price_diff_signs, file, pc,
                   idx, bp_positions, hl_positions, open_candidates,
                   close_candidates, call, orders, kills>>

\* while self.is_running: the condition is found false and start() returns
LoopExit ==
    /\ pc \in loop_test_points
    /\ ~is_running
    /\ pc' = "stopped"
    /\ UNCHANGED <<posA, posB, funding_diff_signs, price_diff_signs, file, idx,
                   bp_positions, hl_positions, open_candidates,
                   close_candidates, call, orders, kills, is_running, events>>

\* the steps of the scheduler task
SchedulerStep ==
    \/ CycleStart
    \/ CycleError
    \/ Backoff
    \/ Collect
    \/ OpenDataError
    \/ OpenPrepare
    \/ OpenDispatch
    \/ OpenVerify
    \/ OpenPace
    \/ OpenBatchDone
    \/ ClosePosition
    \/ ClosePace
    \/ CycleSleep
    \/ LoopExit

NextStop ==
    \/ SchedulerStep
    \/ StopSignal

\* The event loop resumes the scheduler task whenever the call or the sleep it
\* awaits has returned, and every venue call returns or raises.
SpecStop == Init /\ [][NextStop]_vars /\ WF_vars(SchedulerStep)

----------------------------------------------------------------------------
\* The two batch loops of a cycle on their own, over the candidate lists the
\* evaluation of a cycle can leave behind under any max_positions_count: an
\* open candidate for some of the symbols not held and a close candidate for
\* some of the held pairs, each list in the order of the symbol list.

InitBatches ==
    \E held \in SUBSET Syms, fundings \in FundingPairs,
       vocabulary \in SideVocabularies :
      \E opens \in SUBSET (Syms \ held), closes \in SUBSET held :
        LET InOpens(sym) == sym \in opens
            InCloses(sym) == sym \in closes
            open_symbols == SelectSeq(Symbols, InOpens)
            close_symbols == SelectSeq(Symbols, InCloses)
            fd == calculate_funding_diff(fundings[1], fundings[2])
        IN  /\ posA = [s \in Syms |-> IF s \in held THEN 2 ELSE 0]
            /\ posB = [s \in Syms |-> IF s \in held THEN 0 - 2 ELSE 0]
            /\ funding_diff_signs = [s \in Syms |-> IF s \in held THEN 1 ELSE NoSign]
            /\ price_diff_signs = [s \in Syms |-> IF s \in held THEN 1 ELSE NoSign]
            /\ file = SavedFile(funding_diff_signs)
            /\ pc = "open"
            /\ idx = 1
            /\ bp_positions = posA
            /\ hl_positions = posB
            /\ open_candidates =
                  [i \in 1..Len(open_symbols) |->
                      [symbol |-> open_symbols[i], funding_diff |-> fd.diff,
                       bp_funding |-> fundings[1],
                       hl_funding |-> fundings[2] * FundingPeriods,
                       available_size |-> max_position_size]]
            /\ close_candidates =
                  [i \in 1..Len(close_symbols) |->
                      [symbol |-> close_symbols[i],
                       bp_side |-> PositionSide(2, vocabulary),
                       hl_side |-> PositionSide(0 - 2, vocabulary),
                       bp_size |-> 2, hl_size |-> 2]]
            /\ call = NoCall
            /\ orders = {}
            /\ kills = 0
            /\ is_running = TRUE
            /\ events = [i \in 1..Len(Symbols) |-> Event("evaluated", "", Symbols[i])]

NextBatches ==
    \/ OpenDataError
    \/ OpenPrepare
    \/ OpenDispatch
    \/ OpenVerify
    \/ OpenPace
    \/ OpenBatchDone
    \/ ClosePosition
    \/ ClosePace
    \/ CycleSleep

SpecBatches == InitBatches /\ [][NextBatches]_vars

----------------------------------------------------------------------------
\* The verification tail of _close_position (from the settlement sleep to the
\* return), taken on its own over every pre-trade and post-trade position of
\* a held pair.

HeldNets == {0 - 2, 2}

InitCloseVerify ==
    \E sym \in Syms, pre_a \in HeldNets, pre_b \in HeldNets,
       left_a \in 0..2, left_b \in 0..2, stored \in {NoSign, 0 - 1, 1},
       vocabulary \in SideVocabularies,
       bp_result \in Responses, hl_result \in Responses :
        /\ posA = [s \in Syms |-> IF s = sym THEN (pre_a * left_a) \div 2 ELSE 0]
        /\ posB = [s \in Syms |-> IF s = sym THEN (pre_b * left_b) \div 2 ELSE 0]
        /\ funding_diff_signs = [s \in Syms |-> IF s = sym THEN stored ELSE NoSign]
        /\ price_diff_signs = EmptySigns
        /\ file = SavedFile(funding_diff_signs)
        /\ pc = "close_settle"
        /\ idx = 1
        /\ bp_positions = [s \in Syms |-> IF s = sym THEN pre_a ELSE 0]
        /\ hl_positions = [s \in Syms |-> IF s = sym THEN pre_b ELSE 0]
        /\ open_candidates = <<>>
        /\ close_candidates =
              <<[symbol |-> sym,
                 bp_side |-> PositionSide(pre_a, vocabulary),
                 hl_side |-> PositionSide(pre_b, vocabulary),
                 bp_size |-> Abs(pre_a), hl_size |-> Abs(pre_b)]>>
        /\ call = [NoCall EXCEPT
                      !.op = "close", !.symbol = sym,
                      !.held_bp_side = PositionSide(pre_a, vocabulary),
                      !.held_hl_side = PositionSide(pre_b, vocabulary),
                      !.bp_size = Abs(pre_a), !.hl_size = Abs(pre_b),
                      !.bp_side = CloseSide(PositionSide(pre_a, vocabulary)),
                      !.hl_side = CloseSide(PositionSide(pre_b, vocabulary)),
                      !.pre_a = pre_a, !.pre_b = pre_b,
                      !.bp_task = "done", !.hl_task = "done",
                      !.bp_result = bp_result, !.hl_result = hl_result,
                      !.signs_before = funding_diff_signs,
                      !.file_before = file]
        /\ orders = {Order("A", call.bp_side, call.bp_size, "MARKET", "leg"),
                     Order("B", call.hl_side, call.hl_size, "MARKET", "leg")}
        /\ kills = 0
        /\ is_running = TRUE
        /\ events = <<Event("begin", "close", sym)>>

\* post-trade queries, the diff and the outcome branch of _close_position
CloseVerify ==
    /\ pc = "close_settle"
    /\ LET sym == call.symbol
           bp_closed == CloseLegClosed(call.pre_a, posA[sym])
           hl_closed == CloseLegClosed(call.pre_b, posB[sym])
           outcome == CloseOutcome(bp_closed, hl_closed)
       IN  /\ call' = [call EXCEPT !.post_a = posA[sym],
                                   !.post_b = posB[sym],
                                   !.bp_changed = bp_closed,
                                   !.hl_changed = hl_closed,
                                   !.exit = "verified",
                                   !.result = outcome.result]
           /\ funding_diff_signs' =
                 IF outcome.clear
                 THEN [funding_diff_signs EXCEPT ![sym] = NoSign]
                 ELSE funding_diff_signs
           /\ file' = IF outcome.clear /\ funding_diff_signs[sym] # NoSign
                      THEN SavedFile(funding_diff_signs')
                      ELSE file
           /\ orders' = orders \cup
                 {Order(v, "UNWIND", 0, "MARKET", "unwind") : v \in outcome.unwind}
    /\ pc' = "close_ret"
    /\ UNCHANGED <<posA, posB, price_diff_signs, idx, bp_positions,
                   hl_positions, open_candidates, close_candidates, kills,
                   is_running, events>>

NextCloseVerify ==
    \/ CloseVerify
    \/ ClosePace

SpecCloseVerify == InitCloseVerify /\ [][NextCloseVerify]_vars

----------------------------------------------------------------------------
\* The paired executor with the dispatch of _open_position taken task by
\* task: the two order tasks are created, the event loop runs each of them up
\* to its venue call, each venue call returns or raises in its own time, and
\* the gather hands both results to the call.  The verification tail of
\* _close_position starts from the states of InitCloseVerify.

Venues == {"A", "B"}

TaskOf(c, venue) == IF venue = "A" THEN c.bp_task ELSE c.hl_task

ResultOf(c, venue) == IF venue = "A" THEN c.bp_result ELSE c.hl_result

\* one call of open_pair for a candidate of the cycle, both venues flat
InitOpenPair ==
    \E sym \in Syms, fundings \in FundingPairs :
        LET fd == calculate_funding_diff(fundings[1], fundings[2])
        IN  /\ posA = Flat
            /\ posB = Flat
            /\ funding_diff_signs = EmptySigns
            /\ price_diff_signs = EmptySigns
            /\ file = SavedFile(funding_diff_signs)
            /\ pc = "open"
            /\ idx = 1
            /\ bp_positions = Flat
            /\ hl_positions = Flat
            /\ open_candidates =
                  <<[symbol |-> sym, funding_diff |-> fd.diff,
                     bp_funding |-> fundings[1],
                     hl_funding |-> fundings[2] * FundingPeriods,
                     available_size |-> max_position_size]>>
            /\ close_candidates = <<>>
            /\ call = NoCall
            /\ orders = {}
            /\ kills = 0
            /\ is_running = TRUE
            /\ events = [i \in 1..Len(Symbols) |-> Event("evaluated", "", Symbols[i])]

\* asyncio.create_task twice, then the call suspends in asyncio.gather
OpenCreateTasks ==
    /\ pc = "open_dispatch"
    /\ call' = [call EXCEPT !.bp_task = "created", !.hl_task = "created"]
    /\ pc' = "open_gather"
    /\ events' = Append(events, Event("dispatch", "open", call.symbol))
    /\ UNCHANGED <<posA, posB, funding_diff_signs, price_diff_signs, file, idx,
                   bp_positions, hl_positions, open_candidates,
                   close_candidates, orders, kills, is_running>>

\* the event loop starts an order task: place_order sends the order
OrderTaskRun ==
    /\ pc = "open_gather"
    /\ \E venue \in Venues :
        /\ TaskOf(call, venue) = "created"
        /\ call' = IF venue = "A" THEN [call EXCEPT !.bp_task = "running"]
                   ELSE [call EXCEPT !.hl_task = "running"]
        /\ orders' = orders \cup
              {IF venue = "A"
               THEN Order("A", call.bp_side, call.bp_size, "MARKET", "leg")
               ELSE Order("B", call.hl_side, call.hl_size, "LIMIT", "leg")}
    /\ UNCHANGED <<posA, posB, funding_diff_signs, price_diff_signs, file, pc,
                   idx, bp_positions, hl_positions, open_candidates,
                   close_candidates, kills, is_running, events>>

\* place_order returns or raises; the venue has filled what it has filled,
\* whatever the result says
OrderTaskReturn ==
    /\ pc \in {"open_gather", "open_ret"}
    /\ \E venue \in Venues, response \in Responses :
        /\ TaskOf(call, venue) = "running"
        /\ IF venue = "A"
           THEN /\ call' = [call EXCEPT !.bp_task = "done",
                                        !.bp_result = response]
                /\ \E fill_a \in {0, call.bp_size} :
                      posA' = [posA EXCEPT ![call.symbol] =
                                  ApplyOrder(@, call.bp_side, fill_a)]
                /\ UNCHANGED posB
           ELSE /\ call' = [call EXCEPT !.hl_task = "done",
                                        !.hl_result = response]
                /\ \E fill_b \in {0, call.hl_size \div 2, call.hl_size} :
                      posB' = [posB EXCEPT ![call.symbol] =
                                  ApplyOrder(@, call.hl_side, fill_b)]
                /\ UNCHANGED posA
    /\ UNCHANGED <<funding_diff_signs, price_diff_signs, file, pc, idx,
                   bp_positions, hl_positions, open_candidates,
                   close_candidates, orders, kills, is_running, events>>

\* asyncio.gather returns to the call: with return_exceptions it does so when
\* both tasks are done and hands an exception over as a result; without it
\* the first exception of a task is raised in the call, which ends in its
\* except branch
OpenJoin ==
    /\ pc = "open_gather"
    /\ LET raised == \E venue \in Venues :
                        /\ TaskOf(call, venue) = "done"
                        /\ ResultOf(call, venue) = "exception"
       IN  IF ~return_exceptions /\ raised
           THEN /\ call' = [call EXCEPT !.exit = "order_exception",
                                        !.result = "false"]
                /\ pc' = "open_ret"
           ELSE /\ \A venue \in Venues : TaskOf(call, venue) = "done"
                /\ pc' = "open_settle"
                /\ UNCHANGED call
    /\ UNCHANGED <<posA, posB, funding_diff_signs, price_diff_signs, file, idx,
                   bp_positions, hl_positions, open_candidates,
                   close_candidates, orders, kills, is_running, events>>

InitExecutor ==
    \/ InitOpenPair
    \/ InitCloseVerify

NextExecutor ==
    \/ OpenDataError
    \/ OpenPrepare
    \/ OpenCreateTasks
    \/ OrderTaskRun
    \/ OrderTaskReturn
    \/ OpenJoin
    \/ OpenVerify
    \/ OpenPace
    \/ OpenBatchDone
    \/ CloseVerify
    \/ ClosePace
    \/ CycleSleep

SpecExecutor == InitExecutor /\ [][NextExecutor]_vars

----------------------------------------------------------------------------
\* The fill verification of _open_position on its own: the quantity a venue
\* reports before and after the orders (0 for no position) and the order
\* size are drawn, and the check of the leg is applied to them.

LegQuantities == {0 - 10, 0 - 8, 0 - 2, 0, 2, 6, 8, 10, 18, 20}

OrderSizes == {5, 10}

InitLegChanged ==
    /\ pc = "open_settle"
    /\ posA = Flat
    /\ posB = Flat
    /\ funding_diff_signs = EmptySigns
    /\ price_diff_signs = EmptySigns
    /\ file = SavedFile(EmptySigns)
    /\ idx = 1
    /\ bp_positions = Flat
    /\ hl_positions = Flat
    /\ open_candidates = <<>>
    /\ close_candidates = <<>>
    /\ orders = {}
    /\ kills = 0
    /\ is_running = TRUE
    /\ events = <<>>
    /\ \E pre \in LegQuantities, post \in LegQuantities, size \in OrderSizes,
          sym \in Syms :
          call = [Enter("open", sym) EXCEPT !.pre_a = pre, !.post_a = post,
                                             !.bp_size = size]

\* bp_position_changed of lines 1265-1279
CheckLegChanged ==
    /\ pc = "open_settle"
    /\ call' = [call EXCEPT !.bp_changed =
                    OpenLegChanged(call.pre_a, call.post_a, call.bp_size)]
    /\ pc' = "leg_checked"
    /\ UNCHANGED <<posA, posB, funding_diff_signs, price_diff_signs, file, idx,
                   bp_positions, hl_positions, open_candidates,
                   close_candidates, orders, kills, is_running, events>>

NextLegChanged == CheckLegChanged

SpecLegChanged == InitLegChanged /\ [][NextLegChanged]_vars

----------------------------------------------------------------------------
\* _close_position on its own.  A call starts from a close candidate of the
\* cycle's snapshot while the venues hold what they hold by then (a leg of
\* the snapshot may be gone: liquidated or closed by hand); the verification
\* tail starts after the two close orders, over pre-trade and post-trade
\* quantities that reach the 0.9 boundary.

PreCloseNets == {0 - 10, 10, 20}

PostCloseSizes == {0, 1, 2, 3, 10, 20}

SignOf(net) == IF net < 0 THEN 0 - 1 ELSE 1

\* the entry of the call
InitCloseCall ==
    \E sym \in Syms, held_a \in HeldNets, held_b \in HeldNets,
       gone_a \in BOOLEAN, gone_b \in BOOLEAN, stored \in {NoSign, 0 - 1, 1},
       vocabulary \in SideVocabularies :
        /\ posA = [s \in Syms |-> IF s = sym /\ ~gone_a THEN held_a ELSE 0]
        /\ posB = [s \in Syms |-> IF s = sym /\ ~gone_b THEN held_b ELSE 0]
        /\ funding_diff_signs = [s \in Syms |-> IF s = sym THEN stored ELSE NoSign]
        /\ price_diff_signs = EmptySigns
        /\ file = SavedFile(funding_diff_signs)
        /\ pc = "close"
        /\ idx = 1
        /\ bp_positions = [s \in Syms |-> IF s = sym THEN held_a ELSE 0]
        /\ hl_positions = [s \in Syms |-> IF s = sym THEN held_b ELSE 0]
        /\ open_candidates = <<>>
        /\ close_candidates =
              <<[symbol |-> sym,
                 bp_side |-> PositionSide(held_a, vocabulary),
                 hl_side |-> PositionSide(held_b, vocabulary),
                 bp_size |-> Abs(held_a), hl_size |-> Abs(held_b)]>>
        /\ call = NoCall
        /\ orders = {}
        /\ kills = 0
        /\ is_running = TRUE
        /\ events = [i \in 1..Len(Symbols) |-> Event("evaluated", "", Symbols[i])]

\* the settlement sleep, after both close orders
InitCloseSettle ==
    \E sym \in Syms, pre_a \in PreCloseNets, pre_b \in PreCloseNets,
       post_a \in PostCloseSizes, post_b \in PostCloseSizes,
       stored \in {NoSign, 1} :
        /\ posA = [s \in Syms |-> IF s = sym THEN SignOf(pre_a) * post_a ELSE 0]
        /\ posB = [s \in Syms |-> IF s = sym THEN SignOf(pre_b) * post_b ELSE 0]
        /\ funding_diff_signs = [s \in Syms |-> IF s = sym THEN stored ELSE NoSign]
        /\ price_diff_signs = EmptySigns
        /\ file = SavedFile(funding_diff_signs)
        /\ pc = "close_settle"
        /\ idx = 1
        /\ bp_positions = [s \in Syms |-> IF s = sym THEN pre_a ELSE 0]
        /\ hl_positions = [s \in Syms |-> IF s = sym THEN pre_b ELSE 0]
        /\ open_candidates = <<>>
        /\ close_candidates =
              <<[symbol |-> sym,
                 bp_side |-> PositionSide(pre_a, "position"),
                 hl_side |-> PositionSide(pre_b, "position"),
                 bp_size |-> Abs(pre_a), hl_size |-> Abs(pre_b)]>>
        /\ call = [NoCall EXCEPT
                      !.op = "close", !.symbol = sym,
                      !.held_bp_side = PositionSide(pre_a, "position"),
                      !.held_hl_side = PositionSide(pre_b, "position"),
                      !.bp_size = Abs(pre_a), !.hl_size = Abs(pre_b),
                      !.bp_side = CloseSide(PositionSide(pre_a, "position")),
                      !.hl_side = CloseSide(PositionSide(pre_b, "position")),
                      !.pre_a = pre_a, !.pre_b = pre_b,
                      !.bp_task = "done", !.hl_task = "done",
                      !.bp_result = "success", !.hl_result = "success",
                      !.signs_before = funding_diff_signs,
                      !.file_before = file]
        /\ orders = {Order("A", call.bp_side, call.bp_size, "MARKET", "leg"),
                     Order("B", call.hl_side, call.hl_size, "MARKET", "leg")}
        /\ kills = 0
        /\ is_running = TRUE
        /\ events = <<Event("begin", "close", sym)>>

InitClosePair ==
    \/ InitCloseCall
    \/ InitCloseSettle

NextClosePair ==
    \/ ClosePosition
    \/ CloseVerify
    \/ ClosePace
    \/ CycleSleep

SpecClosePair == InitClosePair /\ [][NextClosePair]_vars

----------------------------------------------------------------------------
\* The size clamp of _open_position on its own: the candidate's size and the
\* trading pair's min_volume and max_position_size are drawn, the clamp is
\* applied and the two leg orders are built with its result.

MaxSize == 4

CandidateSizes == 0..(MaxSize + 1)

MinVolumes == 1..(MaxSize - 1)

MaxPositionSizes == {NoLimit} \cup 1..MaxSize

InitOpenSize ==
    /\ pc = "open"
    /\ posA = Flat
    /\ posB = Flat
    /\ funding_diff_signs = EmptySigns
    /\ price_diff_signs = EmptySigns
    /\ file = SavedFile(EmptySigns)
    /\ idx = 1
    /\ bp_positions = Flat
    /\ hl_positions = Flat
    /\ open_candidates = <<>>
    /\ close_candidates = <<>>
    /\ orders = {}
    /\ kills = 0
    /\ is_running = TRUE
    /\ events = <<>>
    /\ \E available_size \in CandidateSizes, minimum \in MinVolumes,
          maximum \in MaxPositionSizes, funding \in {0 - 1, 1} :
          call = [op |-> "open_size", available_size |-> available_size,
                  min_volume |-> minimum, max_position_size |-> maximum,
                  bp_funding |-> funding, bp_size |-> 0, hl_size |-> 0]

\* lines 1069-1087 and the two place_order calls of lines 1161-1179
ClampSize ==
    /\ pc = "open"
    /\ LET size == open_size(call.available_size, call.min_volume,
                             call.max_position_size)
       IN  /\ call' = [call EXCEPT !.bp_size = size, !.hl_size = size]
           /\ orders' = {Order("A", OpenSide(call.bp_funding), size, "MARKET", "leg"),
                         Order("B", OpenSide(0 - call.bp_funding), size, "LIMIT", "leg")}
    /\ pc' = "sized"
    /\ UNCHANGED <<posA, posB, funding_diff_signs, price_diff_signs, file, idx,
                   bp_positions, hl_positions, open_candidates,
                   close_candidates, kills, is_running, events>>

NextOpenSize == ClampSize

SpecOpenSize == InitOpenSize /\ [][NextOpenSize]_vars

----------------------------------------------------------------------------
\* The two batch loops of a cycle with the dispatch of every open taken task
\* by task: what is in flight while the scheduler walks the lists.

NextFlight ==
    \/ OpenDataError
    \/ OpenPrepare
    \/ OpenCreateTasks
    \/ OrderTaskRun
    \/ OrderTaskReturn
    \/ OpenJoin
    \/ OpenVerify
    \/ OpenPace
    \/ OpenBatchDone
    \/ ClosePosition
    \/ ClosePace
    \/ CycleSleep

SpecFlight == InitBatches /\ [][NextFlight]_vars

----------------------------------------------------------------------------
\* open_pair with the limit order of venue B taken as an order that stays on
\* the book: arbitrage_engine.py sends it with order_type "LIMIT" and has no
\* call that cancels an order, and what the venue does with the part not
\* filled at once is outside this file.  The part of the order not filled by
\* the post-trade query may fill after the call has returned.

\* the quantity of the limit order of venue B not filled by the post-trade
\* query
LimitRemainder(c) == c.hl_size - Abs(Abs(c.post_b) - Abs(c.pre_b))

\* venue B fills the rest of the limit order during the pacing sleep that
\* follows the call
LateFill ==
    /\ pc = "open_ret"
    /\ call.exit = "verified"
    /\ call.hl_task = "done"
    /\ \E o \in orders : o.venue = "B" /\ o.type = "LIMIT" /\ o.kind = "leg"
    /\ LimitRemainder(call) > 0
    /\ posB' = [posB EXCEPT ![call.symbol] =
                    ApplyOrder(@, call.hl_side, LimitRemainder(call))]
    /\ call' = [call EXCEPT !.hl_task = "filled_late"]
    /\ UNCHANGED <<posA, funding_diff_signs, price_diff_signs, file, pc, idx,
                   bp_positions, hl_positions, open_candidates,
                   close_candidates, orders, kills, is_running, events>>

NextLateFill ==
    \/ OpenDataError
    \/ OpenPrepare
    \/ OpenCreateTasks
    \/ OrderTaskRun
    \/ OrderTaskReturn
    \/ OpenJoin
    \/ OpenVerify
    \/ LateFill
    \/ OpenPace
    \/ OpenBatchDone
    \/ CycleSleep

SpecLateFill == InitOpenPair /\ [][NextLateFill]_vars

----------------------------------------------------------------------------
\* The Sign Store on its own: the sign file found at startup is any file, the
\* constructor loads it, signs are recorded and cleared with a save each time,
\* and the process ends and is constructed again.

SignFiles ==
    {MissingFile, Truncated} \cup
    {[exists |-> TRUE, parseable |-> TRUE, data |-> d] : d \in [Syms -> JsonValues]}

InitSignStore ==
    /\ file \in SignFiles
    /\ funding_diff_signs = EmptySigns
    /\ pc = "init"
    /\ posA = Flat
    /\ posB = Flat
    /\ price_diff_signs = EmptySigns
    /\ idx = 0
    /\ bp_positions = Flat
    /\ hl_positions = Flat
    /\ open_candidates = <<>>
    /\ close_candidates = <<>>
    /\ call = NoCall
    /\ orders = {}
    /\ kills = 0
    /\ is_running = FALSE
    /\ events = <<>>

\* __init__: self.funding_diff_signs = self._load_funding_diff_signs()
Construct ==
    /\ pc = "init"
    /\ LET loaded == load_funding_diff_signs(file)
       IN  /\ funding_diff_signs' = loaded.signs
           /\ pc' = IF loaded.raised THEN "crashed" ELSE "loaded"
    /\ UNCHANGED <<posA, posB, price_diff_signs, file, idx, bp_positions,
                   hl_positions, open_candidates, close_candidates, call,
                   orders, kills, is_running, events>>

\* the sign of a symbol is recorded and the map saved (_open_position)
RecordSign ==
    /\ pc \in {"loaded", "saved"}
    /\ \E sym \in Syms, sign \in {0 - 1, 1} :
          funding_diff_signs' = [funding_diff_signs EXCEPT ![sym] = sign]
    /\ file' = SavedFile(funding_diff_signs')
    /\ pc' = "saved"
    /\ UNCHANGED <<posA, posB, price_diff_signs, idx, bp_positions,
                   hl_positions, open_candidates, close_candidates, call,
                   orders, kills, is_running, events>>

\* the sign of a symbol is deleted and the map saved (_close_position)
ClearSign ==
    /\ pc \in {"loaded", "saved"}
    /\ \E sym \in Syms :
          /\ funding_diff_signs[sym] # NoSign
          /\ funding_diff_signs' = [funding_diff_signs EXCEPT ![sym] = NoSign]
    /\ file' = SavedFile(funding_diff_signs')
    /\ pc' = "saved"
    /\ UNCHANGED <<posA, posB, price_diff_signs, idx, bp_positions,
                   hl_positions, open_candidates, close_candidates, call,
                   orders, kills, is_running, events>>

\* the process ends after a completed save; call.signs_before keeps the map
\* that was saved last
ProcessEnds ==
    /\ pc = "saved"
    /\ kills < MaxKills
    /\ kills' = kills + 1
    /\ call' = [NoCall EXCEPT !.signs_before = funding_diff_signs]
    /\ funding_diff_signs' = EmptySigns
    /\ pc' = "init"
    /\ UNCHANGED <<posA, posB, price_diff_signs, file, idx, bp_positions,
                   hl_positions, open_candidates, close_candidates, orders,
                   is_running, events>>

NextSignStore ==
    \/ Construct
    \/ RecordSign
    \/ ClearSign
    \/ ProcessEnds

SpecSignStore == InitSignStore /\ [][NextSignStore]_vars

----------------------------------------------------------------------------
\* The slippage analyzer on its own over every orderbook, side, notional and
\* market price of the domains below.

LevelPrices == {0, 99, 100}

LevelSizes == {0, 1, 3}

AmountValues == {0, 100, 1200}

MarketPrices == {0, 100}

Levels ==
    {[shape |-> "px_sz", price |-> p, size |-> z] :
        p \in LevelPrices, z \in LevelSizes}
    \cup {[shape |-> "price_size", price |-> 100, size |-> 1],
          [shape |-> "list", price |-> 99, size |-> 1],
          [shape |-> "px_text", price |-> 0, size |-> 0],
          [shape |-> "other", price |-> 0, size |-> 0]}

\* every side of at most MaxLevels levels, and the sides of one level repeated
\* beyond the depth the fill loop looks at
LevelLists ==
    UNION {[1..n -> Levels] : n \in 0..MaxLevels}
    \cup {[i \in 1..(max_levels_checked + 1) |-> l] :
            l \in {[shape |-> "px_sz", price |-> 99, size |-> 1],
                   [shape |-> "px_sz", price |-> 100, size |-> 1]}}

Orderbooks ==
    {[missing |-> TRUE, sides |-> {}, levels |-> <<>>],
     [missing |-> FALSE, sides |-> {}, levels |-> <<>>]}
    \cup {[missing |-> FALSE, sides |-> sd, levels |-> ls] :
            sd \in {{"bids"}, {"bids", "asks"}}, ls \in LevelLists}

InitAnalyzer ==
    /\ \E orderbook \in Orderbooks, side \in {"bids", "asks"},
          amount_usd \in AmountValues, price \in MarketPrices :
          call = [op |-> "analyze", orderbook |-> orderbook, side |-> side,
                  amount_usd |-> amount_usd, price |-> price, result |-> 0]
    /\ pc = "analyze"
    /\ posA = Flat
    /\ posB = Flat
    /\ funding_diff_signs = EmptySigns
    /\ price_diff_signs = EmptySigns
    /\ file = MissingFile
    /\ idx = 0
    /\ bp_positions = Flat
    /\ hl_positions = Flat
    /\ open_candidates = <<>>
    /\ close_candidates = <<>>
    /\ orders = {}
    /\ kills = 0
    /\ is_running = FALSE
    /\ events = <<>>

Analyze ==
    /\ pc = "analyze"
    /\ call' = [call EXCEPT !.result =
                  analyze_orderbook(call.orderbook, call.side, call.amount_usd,
                                    call.price)]
    /\ pc' = "analyzed"
    /\ UNCHANGED <<posA, posB, funding_diff_signs, price_diff_signs, file, idx,
                   bp_positions, hl_positions, open_candidates,
                   close_candidates, orders, kills, is_running, events>>

NextAnalyzer == Analyze

SpecAnalyzer == InitAnalyzer /\ [][NextAnalyzer]_vars

----------------------------------------------------------------------------
\* The open decision on its own over every condition type, both settings of
\* the direction check and the price and funding differences below.

ConditionTypes == {"any", "all", "funding_only", "price_only"}

\* below the band, inside it and above it, of either sign, and zero
PriceDiffs == {0 - 11, 0 - 3, 0 - 1, 0, 1, 3, 11}

\* under the threshold and over it, of either sign
FundingDiffs == {0 - 8, 0, 8}

InitOpenDecision ==
    /\ \E condition_type \in ConditionTypes,
          check_direction_consistency \in BOOLEAN,
          price_diff_percent \in PriceDiffs, funding_diff \in FundingDiffs :
          call = [op |-> "check_open", condition_type |-> condition_type,
                  check_direction_consistency |-> check_direction_consistency,
                  price_diff_percent |-> price_diff_percent,
                  funding_diff |-> funding_diff, should_open |-> FALSE]
    /\ pc = "check_open"
    /\ posA = Flat
    /\ posB = Flat
    /\ funding_diff_signs = EmptySigns
    /\ price_diff_signs = EmptySigns
    /\ file = MissingFile
    /\ idx = 0
    /\ bp_positions = Flat
    /\ hl_positions = Flat
    /\ open_candidates = <<>>
    /\ close_candidates = <<>>
    /\ orders = {}
    /\ kills = 0
    /\ is_running = TRUE
    /\ events = <<>>

CheckOpen ==
    /\ pc = "check_open"
    /\ call' = [call EXCEPT !.should_open =
                  open_decision(call.condition_type,
                                call.check_direction_consistency,
                                call.price_diff_percent, call.funding_diff)]
    /\ pc' = "checked_open"
    /\ UNCHANGED <<posA, posB, funding_diff_signs, price_diff_signs, file, idx,
                   bp_positions, hl_positions, open_candidates,
                   close_candidates, orders, kills, is_running, events>>

NextOpenDecision == CheckOpen

SpecOpenDecision == InitOpenDecision /\ [][NextOpenDecision]_vars

----------------------------------------------------------------------------
\* The close check on its own for a held pair, under every configuration of
\* the close conditions, with and without stored signs.

CloseConfigurations ==
    [condition_type : ConditionTypes,
     funding_diff_sign_change : BOOLEAN,
     price_diff_sign_change : BOOLEAN,
     check_direction_consistency : BOOLEAN,
     ignore_close_slippage : BOOLEAN]

\* <<stored funding sign, stored price sign>>: a price sign is only ever
\* written together with a funding sign, and is lost at a restart
StoredSignPairs ==
    {<<f, p>> \in {NoSign, 0 - 1, 1} \X {NoSign, 0 - 1, 1} :
        f = NoSign => p = NoSign}

InitCloseDecision ==
    /\ \E config \in CloseConfigurations, stored \in StoredSignPairs,
          price_diff_percent \in PriceDiffs, funding_diff \in FundingDiffs,
          total_slippage \in SlippageValues :
          /\ funding_diff_signs = [s \in Syms |-> IF s = Symbols[1]
                                                  THEN stored[1] ELSE NoSign]
          /\ price_diff_signs = [s \in Syms |-> IF s = Symbols[1]
                                                THEN stored[2] ELSE NoSign]
          /\ call = [op |-> "check_close", symbol |-> Symbols[1],
                     config |-> config,
                     price_diff_percent |-> price_diff_percent,
                     funding_diff |-> funding_diff,
                     funding_diff_sign |-> IF funding_diff > 0 THEN 1 ELSE 0 - 1,
                     total_slippage |-> total_slippage,
                     entry_funding_diff_sign |-> stored[1],
                     entry_price_diff_sign |-> stored[2],
                     should_close |-> FALSE, slippage_condition_met |-> FALSE,
                     funding_condition_met |-> FALSE,
                     price_condition_met |-> FALSE,
                     price_sign_changed |-> FALSE]
    /\ pc = "check_close"
    /\ posA = [s \in Syms |-> IF s = Symbols[1] THEN 2 ELSE 0]
    /\ posB = [s \in Syms |-> IF s = Symbols[1] THEN 0 - 2 ELSE 0]
    /\ file = SavedFile(funding_diff_signs)
    /\ idx = 1
    /\ bp_positions = posA
    /\ hl_positions = posB
    /\ open_candidates = <<>>
    /\ close_candidates = <<>>
    /\ orders = {}
    /\ kills = 0
    /\ is_running = TRUE
    /\ events = <<>>

\* one call of _check_close_conditions_without_execution
CheckClose ==
    /\ pc = "check_close"
    /\ LET checked == check_close_conditions_with(call.config, call.symbol,
                          call.price_diff_percent, call.funding_diff,
                          call.funding_diff_sign, funding_diff_signs,
                          price_diff_signs, call.total_slippage)
       IN  call' = [call EXCEPT
                      !.should_close = checked.should_close,
                      !.slippage_condition_met = checked.slippage_condition_met,
                      !.funding_condition_met = checked.funding_condition_met,
                      !.price_condition_met = checked.price_condition_met,
                      !.price_sign_changed = checked.price_sign_changed]
    /\ price_diff_signs' =
          close_price_signs(call.symbol, call.price_diff_percent,
                            funding_diff_signs, price_diff_signs).psigns
    /\ pc' = "checked_close"
    /\ UNCHANGED <<posA, posB, funding_diff_signs, file, idx, bp_positions,
                   hl_positions, open_candidates, close_candidates, orders,
                   kills, is_running, events>>

NextCloseDecision == CheckClose

SpecCloseDecision == InitCloseDecision /\ [][NextCloseDecision]_vars

\* the call of a later cycle for the same pair, at another price difference
CheckCloseAgain ==
    /\ pc = "checked_close"
    /\ \E price_diff_percent \in PriceDiffs :
        LET checked == check_close_conditions_with(call.config, call.symbol,
                          price_diff_percent, call.funding_diff,
                          call.funding_diff_sign, funding_diff_signs,
                          price_diff_signs, call.total_slippage)
        IN  /\ call' = [call EXCEPT
                          !.price_diff_percent = price_diff_percent,
                          !.should_close = checked.should_close,
                          !.slippage_condition_met = checked.slippage_condition_met,
                          !.funding_condition_met = checked.funding_condition_met,
                          !.price_condition_met = checked.price_condition_met,
                          !.price_sign_changed = checked.price_sign_changed]
            /\ price_diff_signs' =
                  close_price_signs(call.symbol, price_diff_percent,
                                    funding_diff_signs, price_diff_signs).psigns
    /\ pc' = "checked_again"
    /\ UNCHANGED <<posA, posB, funding_diff_signs, file, idx, bp_positions,
                   hl_positions, open_candidates, close_candidates, orders,
                   kills, is_running, events>>

NextCloseReview ==
    \/ CheckClose
    \/ CheckCloseAgain

\* two evaluations of a held pair in a row
SpecCloseReview == InitCloseDecision /\ [][NextCloseReview]_vars

----------------------------------------------------------------------------
\* The slippage guard of the open check over successive cycles: the market
\* data keeps, per symbol, the total_slippage entry the engine wrote last; in
\* each step one symbol without a position is evaluated with a funding
\* difference over the threshold, so that only the guard decides.

LegSlippages == {5, 10, 20}

InitSlippageGuard ==
    /\ call = [op |-> "none", symbol |-> "", outcome |-> "",
               market_data |-> [s \in Syms |-> NoSlippage],
               computed |-> NoSlippage, left_over |-> NoSlippage,
               total_slippage |-> NoSlippage, should_open |-> FALSE]
    /\ pc = "collect"
    /\ idx = 1
    /\ posA = Flat
    /\ posB = Flat
    /\ funding_diff_signs = EmptySigns
    /\ price_diff_signs = EmptySigns
    /\ file = MissingFile
    /\ bp_positions = Flat
    /\ hl_positions = Flat
    /\ open_candidates = <<>>
    /\ close_candidates = <<>>
    /\ orders = {}
    /\ kills = 0
    /\ is_running = TRUE
    /\ events = <<>>

\* the evaluation of the idx-th symbol: the slippage block, then the guard of
\* the open check
CollectSlippage ==
    /\ pc = "collect"
    /\ \E outcome \in SlippageOutcomes, refresh \in SnapshotRefreshes,
          long_slippage \in LegSlippages, short_slippage \in LegSlippages :
        LET sym == Symbols[idx]
            before == refreshed_entry(call.market_data[sym], refresh)
            entry == collect_slippage(before, outcome, long_slippage,
                                      short_slippage)
            total_slippage == guard_slippage(entry)
            open == check_open_conditions(sym, 0, FundingPeriods, bp_positions,
                                          hl_positions, total_slippage)
        IN  call' = [op |-> "collect", symbol |-> sym, outcome |-> outcome,
                     market_data |-> [call.market_data EXCEPT ![sym] = entry],
                     computed |-> IF outcome = "computed"
                                  THEN long_slippage + short_slippage
                                  ELSE NoSlippage,
                     left_over |-> IF outcome = "computed" THEN NoSlippage
                                   ELSE entry,
                     total_slippage |-> total_slippage,
                     should_open |-> open.should_open]
    /\ idx' = IF idx < Len(Symbols) THEN idx + 1 ELSE 1
    /\ UNCHANGED <<posA, posB, funding_diff_signs, price_diff_signs, file, pc,
                   bp_positions, hl_positions, open_candidates,
                   close_candidates, orders, kills, is_running, events>>

NextSlippageGuard == CollectSlippage

SpecSlippageGuard == InitSlippageGuard /\ [][NextSlippageGuard]_vars

----------------------------------------------------------------------------
\* Properties

Paired == {s \in Syms : posA[s] # 0 /\ posB[s] # 0}

Stored == {s \in Syms : funding_diff_signs[s] # NoSign}

LegOrders == {o \in orders : o.kind = "leg"}

UnwindOrders == {o \in orders : o.kind = "unwind"}

OneLegVerified == call.exit = "verified" /\ call.bp_changed # call.hl_changed

\* C1: in a run from an empty sign store and flat venues, whenever open_pair
\* or close_pair has returned, the symbols with a Sign Store entry are exactly
\* the symbols held on both venues.
C1_SignStoreMatchesPairs ==
    (kills = 0 /\ pc \in {"open_ret", "close_ret"}) => Stored = Paired

\* C2: when open_pair returns anything but success, the Sign Store in memory
\* (funding and price signs) and the sign file are what they were at entry.
C2_OpenSignStoreOnlyOnSuccess ==
    (pc = "open_ret" /\ call.result # "true") =>
        /\ funding_diff_signs = call.signs_before
        /\ price_diff_signs = call.psigns_before
        /\ file = call.file_before

\* C3: when close_pair has returned for a symbol whose price was available
\* and whose two legs both existed before the trade, it has dispatched both
\* close orders, returned success and removed the symbol's Sign Store entry.
C3_CloseBothLegsSucceeds ==
    (pc = "close_ret" /\ call.exit \notin {"price", "exception"}
        /\ call.pre_a # 0 /\ call.pre_b # 0) =>
        /\ {o.venue : o \in LegOrders} = {"A", "B"}
        /\ call.result = "true"
        /\ funding_diff_signs[call.symbol] = NoSign

\* C4: when open_pair has returned after verifying exactly one leg, it has
\* returned failure and the venue whose leg was verified holds no position
\* in the symbol.
C4_OpenOneLegFlat ==
    (pc = "open_ret" /\ OneLegVerified) =>
        /\ call.result = "false"
        /\ call.bp_changed => posA[call.symbol] = 0
        /\ call.hl_changed => posB[call.symbol] = 0

C6_OneCandidatePerSymbol ==
    /\ \A i \in 1..Len(open_candidates), j \in 1..Len(close_candidates) :
          open_candidates[i].symbol # close_candidates[j].symbol
    /\ \A i, j \in 1..Len(open_candidates) :
          i # j => open_candidates[i].symbol # open_candidates[j].symbol
    /\ \A i, j \in 1..Len(close_candidates) :
          i # j => close_candidates[i].symbol # close_candidates[j].symbol

\* C6 witness: evaluation of the cycle is over and has appended a candidate
\* for each of the two configured symbols.
C6_Witness == pc = "open" /\ idx = 1 /\ Len(open_candidates) = 2

\* C7: the two orders open_pair sends have opposite sides.
C7_OpenSidesOpposite ==
    call.op = "open" =>
        \A a \in LegOrders, b \in LegOrders :
            (a.venue = "A" /\ b.venue = "B") => a.side # b.side

\* C8: the order open_pair sends to venue A is SELL if and only if venue A's
\* funding rate is > 0 and BUY otherwise, and the order it sends to venue B is
\* SELL if and only if venue B's normalised funding rate is > 0 and BUY
\* otherwise.
C8_OpenSidesFollowFunding ==
    call.op = "open" =>
        \A o \in LegOrders :
            /\ o.side \in {"BUY", "SELL"}
            /\ o.venue = "A" => (o.side = "SELL" <=> call.bp_funding > 0)
            /\ o.venue = "B" => (o.side = "SELL" <=> call.hl_funding > 0)

\* C8 witness: open_pair has sent its orders for a candidate whose venue A
\* funding rate is exactly 0 and whose venue B funding rate is negative.
C8_Witness ==
    /\ pc = "open_settle"
    /\ call.bp_funding = 0 /\ call.hl_funding < 0
    /\ Order("A", "BUY", call.bp_size, "MARKET", "leg") \in orders
    /\ Order("B", "BUY", call.hl_size, "LIMIT", "leg") \in orders

\* C9: the order close_pair prepares for each venue has the side opposite to
\* the held position's side (SELL for a long, BUY for a short) and the held
\* position's size.
C9_CloseSidesMirrorHeld ==
    (pc = "close_ret") =>
        /\ call.held_bp_side \in {"LONG", "BUY"} => call.bp_side = "SELL"
        /\ call.held_bp_side \in {"SHORT", "SELL"} => call.bp_side = "BUY"
        /\ call.held_hl_side \in {"LONG", "BUY"} => call.hl_side = "SELL"
        /\ call.held_hl_side \in {"SHORT", "SELL"} => call.hl_side = "BUY"
        /\ call.bp_size = Abs(bp_positions[call.symbol])
        /\ call.hl_size = Abs(hl_positions[call.symbol])

\* C10: the sign file on disk is at every moment a complete, parseable JSON
\* map, also when the process is killed during or between writes.
C10_FileAlwaysParseable == file.parseable

\* C11: loading the sign file at startup never raises; a missing file, a file
\* that cannot be parsed and a file with a value int() cannot convert each
\* give the empty map; and after a restart the loaded map is exactly the map
\* that was saved last.
C11_LoadNeverRaises ==
    /\ pc # "crashed"
    /\ pc = "loaded" =>
        /\ ~file.exists => funding_diff_signs = EmptySigns
        /\ (file.exists /\ ~file.parseable) => funding_diff_signs = EmptySigns
        /\ (file.exists /\ file.parseable
              /\ \E s \in Syms : file.data[s] \in {"'x'", "null"})
            => funding_diff_signs = EmptySigns
        /\ kills > 0 => funding_diff_signs = call.signs_before

\* C11 witness: the process saved a map with an entry, ended, and the next
\* constructor has loaded that map.
C11_Witness ==
    /\ pc = "loaded" /\ kills = 1
    /\ call.signs_before # EmptySigns
    /\ funding_diff_signs = call.signs_before

\* C12: the slippage the analyzer returns is between 0.01 and 0.5 percent,
\* on the default path and on the insufficient-liquidity path too.
C12_SlippageInRange ==
    pc = "analyzed" => (1 <= call.result /\ call.result <= 50)

\* C12 witness: the analyzer has returned for a side of well-formed levels
\* whose total value is under 80 percent of the notional.
C12_Witness ==
    /\ pc = "analyzed"
    /\ call.side \in call.orderbook.sides
    /\ Len(call.orderbook.levels) = 2
    /\ \A i \in 1..2 : call.orderbook.levels[i].shape \in RecognisedShapes
                        /\ call.orderbook.levels[i].price > 0
                        /\ call.orderbook.levels[i].size > 0
    /\ call.amount_usd = 1200
    /\ call.result = 20

\* the book has a structural defect: it is missing or empty, the requested
\* side is missing or empty, or a level of the side has an unrecognised shape
StructuralDefect ==
    \/ call.orderbook.missing
    \/ call.orderbook.sides = {}
    \/ call.side \notin call.orderbook.sides
    \/ call.orderbook.levels = <<>>
    \/ \E i \in 1..Len(call.orderbook.levels) :
          call.orderbook.levels[i].shape = "other"

\* C13: the analyzer returns the default 0.10 whenever the orderbook has a
\* structural defect, also when other levels of the side are well-formed.
C13_DefectGivesDefault ==
    (pc = "analyzed" /\ StructuralDefect) => call.result = DefaultSlippage

\* C14: every funding difference the core computes, in candidate evaluation
\* and again inside open_pair, is venue A's rate minus venue B's rate
\* normalised exactly once.
C14_FundingNormalisedOnce ==
    /\ \A i \in 1..Len(open_candidates) :
          open_candidates[i].funding_diff =
              open_candidates[i].bp_funding - open_candidates[i].hl_funding
    /\ (call.op = "open" /\ call.exit # "data") =>
          call.funding_diff = call.bp_funding - call.hl_funding

\* C15: after a successful open_pair the funding sign stored for the symbol
\* is the sign of the candidate's funding difference, the sign the evaluator
\* computed when it emitted the candidate.
C15_StoredSignIsEvaluatedSign ==
    (pc = "open_ret" /\ call.result = "true") =>
        funding_diff_signs[call.symbol] =
            (IF call.candidate_funding_diff > 0 THEN 1 ELSE 0 - 1)

\* the place of a symbol in the configured symbol list
SymbolIndex(sym) == CHOOSE i \in 1..Len(Symbols) : Symbols[i] = sym

\* the events of the executor calls among the first n events of the cycle
CallEvents(n, kind, op) ==
    {i \in 1..n : events[i].kind = kind /\ events[i].op = op}

\* C16: within a cycle no open_pair event follows a close_pair event, when a
\* close_pair call begins every open_pair call begun has returned, and the
\* calls of each batch begin in the order of the configured symbol list.
C16_OpensBeforeCloses ==
    \A j \in 1..Len(events) :
        /\ (events[j].kind = "begin" /\ events[j].op = "close") =>
              Cardinality(CallEvents(j, "begin", "open"))
                  = Cardinality(CallEvents(j, "return", "open"))
        /\ \A i \in 1..(j - 1) :
              /\ ~(events[i].op = "close" /\ events[j].op = "open")
              /\ (events[i].kind = "begin" /\ events[j].kind = "begin"
                    /\ events[i].op = events[j].op) =>
                    SymbolIndex(events[i].symbol) < SymbolIndex(events[j].symbol)

\* C16 witness: a cycle with a candidate in each batch, whose open_pair call
\* has returned and whose close_pair call has begun.
C16_Witness ==
    /\ pc = "close_ret"
    /\ CallEvents(Len(events), "return", "open") # {}
    /\ CallEvents(Len(events), "begin", "close") # {}

\* C17: the scheduler leaves the main loop only with no paired execution in
\* progress, and once the running flag is cleared it eventually leaves it.
C17_StopFinishesPair ==
    /\ [](pc = "stopped" => (call = NoCall /\ orders = {}))
    /\ (~is_running ~> pc = "stopped")

\* C17 witness: the flag was cleared between the dispatch of a pair's orders
\* and the return of that open_pair call, and the scheduler has left the loop.
C17_Witness ==
    /\ pc = "stopped"
    /\ \E i \in 1..(Len(events) - 2) :
          /\ events[i].kind = "dispatch"
          /\ events[i + 1].kind = "stop"
          /\ events[i + 2] = Event("return", "open", events[i].symbol)

\* C18: after an error in the evaluation of a symbol every later symbol of
\* the list is evaluated in the same cycle, and when the cycle reaches its
\* sleep every candidate collected in it has been handed to the executor.
C18_EvaluationErrorContained ==
    (\E e \in 1..Len(events) : events[e].kind = "evaluate_error") =>
        /\ \A e \in 1..Len(events) : \A k \in 1..Len(Symbols) :
              (events[e].kind = "evaluate_error"
                 /\ k > SymbolIndex(events[e].symbol)) =>
                  \/ pc = "collect" /\ idx <= k
                  \/ \E j \in (e + 1)..Len(events) :
                        /\ events[j].kind \in {"evaluated", "evaluate_error"}
                        /\ events[j].symbol = Symbols[k]
        /\ (pc = "close" /\ idx > Len(close_candidates)) =>
              /\ \A i \in 1..Len(open_candidates) :
                    Event("begin", "open", open_candidates[i].symbol)
                        \in {events[j] : j \in 1..Len(events)}
              /\ \A i \in 1..Len(close_candidates) :
                    Event("begin", "close", close_candidates[i].symbol)
                        \in {events[j] : j \in 1..Len(events)}

\* C18 witness: the evaluation of the first symbol raised, the second symbol
\* was evaluated and became a candidate, and the batch has been executed.
C18_Witness ==
    /\ pc = "close" /\ idx > Len(close_candidates)
    /\ events[1] = Event("evaluate_error", "", Symbols[1])
    /\ events[2] = Event("evaluated", "", Symbols[2])
    /\ Len(open_candidates) = 1
    /\ Event("return", "open", Symbols[2]) \in {events[j] : j \in 1..Len(events)}

\* C19: an error of the cycle body does not end the scheduler (it leaves the
\* loop only with the running flag cleared), no open_pair or close_pair runs
\* in a cycle whose position query failed, and with the flag set the backoff
\* is followed by the top of the loop.
C19_CycleErrorBacksOff ==
    /\ [](pc = "stopped" => ~is_running)
    /\ []((events # <<>> /\ events[1].kind = "cycle_error") =>
              \A i \in 1..Len(events) :
                  events[i].kind \notin {"begin", "dispatch", "return"})
    /\ ((pc = "backoff" /\ is_running) ~> (pc = "cycle" \/ ~is_running))

\* C19 witness: a position query failed, the scheduler backed off and is at
\* the top of the loop again with the flag set.
C19_Witness ==
    /\ pc = "cycle" /\ is_running
    /\ events = <<Event("cycle_error", "", "")>>

\* C20: the open decision is the configured combination of P (the price
\* difference is inside the band), F (the funding difference reaches the
\* threshold) and D (the direction check is disabled, or the two differences
\* have the same sign): funding_only = F and D, price_only = P and D,
\* all = P and F and D, any = (P or F) and D.
C20_OpenDecisionIsCombination ==
    pc = "checked_open" =>
        LET P == /\ min_price_diff_percent <= Abs(call.price_diff_percent)
                 /\ Abs(call.price_diff_percent) <= max_price_diff_percent
            F == Abs(call.funding_diff) >= min_funding_diff
            D == \/ ~call.check_direction_consistency
                 \/ PriceDiffSign(call.price_diff_percent)
                        = (IF call.funding_diff > 0 THEN 1 ELSE 0 - 1)
        IN  call.should_open =
                CASE call.condition_type = "funding_only" -> F /\ D
                  [] call.condition_type = "price_only" -> P /\ D
                  [] call.condition_type = "all" -> P /\ F /\ D
                  [] call.condition_type = "any" -> (P \/ F) /\ D

\* the price sign the close check compares against: the stored one, or the
\* current one when none was stored (first observation)
C21_EntryPriceSign ==
    IF call.entry_price_diff_sign = NoSign
    THEN PriceDiffSign(call.price_diff_percent)
    ELSE call.entry_price_diff_sign

\* C21: for a held pair with a stored funding sign that passes the close
\* slippage guard, the close decision is the combination, by condition type
\* as in the open case, of F (stored funding sign differs from the current
\* one and the funding difference reaches the close threshold), P (the close
\* price condition) and D (the direction check is disabled, or the two
\* differences have the same sign).
C21_CloseDecisionIsCombination ==
    (pc = "checked_close" /\ call.slippage_condition_met
        /\ call.config.funding_diff_sign_change
        /\ call.entry_funding_diff_sign # NoSign) =>
        LET F == /\ call.entry_funding_diff_sign # call.funding_diff_sign
                 /\ Abs(call.funding_diff) >= close_min_funding_diff
            P == IF call.config.price_diff_sign_change
                 THEN /\ C21_EntryPriceSign # PriceDiffSign(call.price_diff_percent)
                      /\ Abs(call.price_diff_percent) >= min_profit_percent
                 ELSE Abs(call.price_diff_percent) < min_profit_percent
            D == \/ ~call.config.check_direction_consistency
                 \/ PriceDiffSign(call.price_diff_percent)
                        = (IF call.funding_diff > 0 THEN 1 ELSE 0 - 1)
        IN  call.should_close =
                CASE call.config.condition_type = "funding_only" -> F /\ D
                  [] call.config.condition_type = "price_only" -> P /\ D
                  [] call.config.condition_type = "all" -> P /\ F /\ D
                  [] call.config.condition_type = "any" -> (P \/ F) /\ D

\* C22 as stated: the close price condition is (stored price sign differs
\* from the current one and the price difference reaches min_profit_percent)
\* when price_diff_sign_change is set and (the price difference is under
\* min_profit_percent) otherwise; and with price_only and no sign change
\* required, under every configuration, a held pair becomes a close candidate
\* exactly when the price difference is under min_profit_percent and the
\* slippage guard passes.
C22_ClosePriceConditionAnyConfiguration ==
    pc = "checked_close" =>
        LET converged == Abs(call.price_diff_percent) < min_profit_percent
        IN  /\ call.price_condition_met =
                 (IF call.config.price_diff_sign_change
                  THEN /\ C21_EntryPriceSign # PriceDiffSign(call.price_diff_percent)
                       /\ Abs(call.price_diff_percent) >= min_profit_percent
                  ELSE converged)
            /\ (call.config.condition_type = "price_only"
                  /\ ~call.config.price_diff_sign_change) =>
                  (call.should_close <=> (converged /\ call.slippage_condition_met))

\* C22 amended: the same price condition; and with price_only, no sign change
\* required and the direction check disabled, a held pair becomes a close
\* candidate exactly when the price difference is under min_profit_percent
\* and the slippage guard passes.
C22_ClosePriceCondition ==
    pc = "checked_close" =>
        LET converged == Abs(call.price_diff_percent) < min_profit_percent
        IN  /\ call.price_condition_met =
                 (IF call.config.price_diff_sign_change
                  THEN /\ C21_EntryPriceSign # PriceDiffSign(call.price_diff_percent)
                       /\ Abs(call.price_diff_percent) >= min_profit_percent
                  ELSE converged)
            /\ (call.config.condition_type = "price_only"
                  /\ ~call.config.price_diff_sign_change
                  /\ ~call.config.check_direction_consistency) =>
                  (call.should_close <=> (converged /\ call.slippage_condition_met))

\* C22 witness: price_only without sign change and without direction check,
\* a price difference under the threshold, the slippage guard passed with a
\* slippage under the limit: the pair is a close candidate.
C22_Witness ==
    /\ pc = "checked_close"
    /\ call.config.condition_type = "price_only"
    /\ ~call.config.price_diff_sign_change
    /\ ~call.config.check_direction_consistency
    /\ ~call.config.ignore_close_slippage
    /\ Abs(call.price_diff_percent) < min_profit_percent
    /\ call.total_slippage <= max_close_slippage_percent
    /\ call.should_close

\* C23: while the cycle's position snapshot holds max_positions_count or more
\* distinct symbols over the two venues, the cycle has no open candidate.
C23_NoOpenAtGlobalCap ==
    Cardinality(position_symbols(bp_positions, hl_positions))
        >= max_positions_count
    => open_candidates = <<>>

\* C23 witness: the snapshot holds max_positions_count symbols and the cycle
\* has evaluated, without error, a symbol that is on neither venue.
C23_Witness ==
    /\ pc = "open"
    /\ Cardinality(position_symbols(bp_positions, hl_positions))
          = max_positions_count
    /\ \E i \in 1..Len(events) :
          /\ events[i].kind = "evaluated"
          /\ events[i].symbol \notin position_symbols(bp_positions, hl_positions)
    /\ open_candidates = <<>>

\* C24: no symbol becomes an open candidate when the total slippage computed
\* for it in this cycle is over max_slippage_percent (ignore_high_slippage
\* being off), and when no slippage was computed for it in this cycle the
\* guard takes a value over max_slippage_percent, not one left over from an
\* earlier cycle.
C24_SlippageGuardIsFresh ==
    call.op = "collect" =>
        /\ (call.computed # NoSlippage /\ call.computed > max_slippage_percent
              /\ ~ignore_high_slippage) => ~call.should_open
        /\ call.computed = NoSlippage =>
              /\ call.total_slippage > max_slippage_percent
              /\ ~call.should_open

\* the venues that got an unwind order in the call
UnwoundVenues == {o.venue : o \in UnwindOrders}

\* C25: the outcome of open_pair (success, unwind of one venue, failure) and
\* of close_pair, and the Sign Store the call leaves, are determined by the
\* pre-trade and post-trade positions alone, whatever the two order calls
\* returned or raised.
C25_OutcomeFromDiffOnly ==
    /\ (pc = "open_ret" /\ call.exit = "verified") =>
          LET a == OpenLegChanged(call.pre_a, call.post_a, call.bp_size)
              b == OpenLegChanged(call.pre_b, call.post_b, call.hl_size)
          IN  /\ call.result = (IF a /\ b THEN "true" ELSE "false")
              /\ UnwoundVenues = (IF a /\ ~b THEN {"A"}
                                  ELSE IF ~a /\ b THEN {"B"} ELSE {})
              /\ funding_diff_signs =
                    [call.signs_before EXCEPT ![call.symbol] = call.funding_diff_sign]
    /\ (pc = "close_ret" /\ call.exit = "verified") =>
          LET a == CloseLegClosed(call.pre_a, call.post_a)
              b == CloseLegClosed(call.pre_b, call.post_b)
          IN  /\ call.result = (IF a /\ b THEN "true" ELSE "false")
              /\ funding_diff_signs =
                    (IF a /\ b
                     THEN [call.signs_before EXCEPT ![call.symbol] = NoSign]
                     ELSE call.signs_before)

\* C25 witness: open_pair has returned success after both order calls failed
\* by their results (one raised, the other returned an error value) and the
\* diff verified both legs.
C25_Witness ==
    /\ pc = "open_ret" /\ call.exit = "verified"
    /\ call.bp_result = "exception" /\ call.hl_result = "error_value"
    /\ call.result = "true"

\* C26: in a paired execution no order is sent before both order tasks
\* exist, the call goes on to the settlement sleep, the post-trade queries and
\* the outcome only when both order calls have returned or raised, and it
\* never ends by the exception of an order call.
C26_JoinWaitsForBoth ==
    call.op = "open" =>
        /\ (orders # {} \/ call.bp_task \in {"running", "done"}
                        \/ call.hl_task \in {"running", "done"}) =>
              (call.bp_task # "none" /\ call.hl_task # "none")
        /\ (pc \in {"open_settle", "open_ret"} /\ call.bp_task # "none") =>
              (call.bp_task = "done" /\ call.hl_task = "done")
        /\ call.exit # "order_exception"

\* C26 witness: the order call of venue A raised, the order call of venue B
\* returned success and its order filled, and the call is at the settlement
\* sleep.
C26_Witness ==
    /\ pc = "open_settle"
    /\ call.bp_result = "exception" /\ call.hl_result = "success"
    /\ posB[call.symbol] # 0

\* C29: when the diff verifies neither leg, open_pair and close_pair return
\* failure and no order beyond the two initial ones has been sent.
C29_NeitherLegNoFurtherOrder ==
    (pc \in {"open_ret", "close_ret"} /\ call.exit = "verified"
        /\ ~call.bp_changed /\ ~call.hl_changed) =>
        /\ call.result = "false"
        /\ UnwindOrders = {}
        /\ Cardinality(orders) = 2
        /\ {o.venue : o \in LegOrders} = Venues

\* C29 witness: open_pair has returned after both orders reported success
\* and neither venue shows a new position.
C29_Witness ==
    /\ pc = "open_ret" /\ call.exit = "verified"
    /\ call.bp_result = "success" /\ call.hl_result = "success"
    /\ ~call.bp_changed /\ ~call.hl_changed
    /\ call.result = "false"

\* a step of the scheduler that evaluates the idx-th symbol
EvaluationStep ==
    /\ pc = "collect"
    /\ Len(events') = Len(events) + 1
    /\ events'[Len(events')].kind \in {"evaluated", "evaluate_error"}

\* C27: evaluating a symbol, with or without a position, leaves every stored
\* funding sign and every stored price sign unchanged.
C27_EvaluationLeavesSigns ==
    [][EvaluationStep =>
          /\ funding_diff_signs' = funding_diff_signs
          /\ price_diff_signs' = price_diff_signs]_vars

\* C27 as the code has it: a step changes a stored sign only when it is a
\* step of open_pair or close_pair, a restart of the process, or the
\* evaluation of a symbol held on both venues that has a stored funding sign
\* and no stored price sign; that evaluation records the current price sign
\* of the symbol and changes nothing else in the store.
C27_EvaluationRecapturesOnly ==
    [][/\ EvaluationStep =>
            /\ funding_diff_signs' = funding_diff_signs
            /\ \A s \in Syms :
                  price_diff_signs'[s] # price_diff_signs[s] =>
                      /\ s = Symbols[idx]
                      /\ bp_positions[s] # 0 /\ hl_positions[s] # 0
                      /\ funding_diff_signs[s] # NoSign
                      /\ price_diff_signs[s] = NoSign
                      /\ price_diff_signs'[s] \in {0 - 1, 1}
       /\ (funding_diff_signs' # funding_diff_signs
              \/ price_diff_signs' # price_diff_signs) =>
            \/ EvaluationStep
            \/ kills' = kills + 1
            \/ call'.op \in {"open", "close"}]_vars

\* C27 witness: after a restart of the process and before any call of the
\* executor, a held pair with a stored funding sign has been evaluated and
\* has a stored price sign.
C27_Witness ==
    /\ pc \in {"collect", "open"}
    /\ kills > 0
    /\ call = NoCall
    /\ \E i \in 1..Len(events) :
          /\ events[i].kind = "evaluated"
          /\ bp_positions[events[i].symbol] # 0
          /\ hl_positions[events[i].symbol] # 0
          /\ funding_diff_signs[events[i].symbol] # NoSign
          /\ price_diff_signs[events[i].symbol] # NoSign

\* C28: every funding sign and every price sign the engine holds is -1 or 1.
C28_SignsAreUnits ==
    \A s \in Syms :
        /\ funding_diff_signs[s] \in {NoSign, 0 - 1, 1}
        /\ price_diff_signs[s] \in {NoSign, 0 - 1, 1}

\* C30: in open_pair a leg counts as filled exactly when no position existed
\* before and one exists after, or a position existed before and after and
\* its size moved by at least 0.8 of the order size; a position that existed
\* before and is absent after never counts as filled.
C30_OpenLegFilled ==
    pc = "leg_checked" =>
        /\ call.bp_changed <=>
              \/ (call.pre_a = 0 /\ call.post_a # 0)
              \/ /\ call.pre_a # 0 /\ call.post_a # 0
                 /\ 10 * Abs(Abs(call.post_a) - Abs(call.pre_a)) >= 8 * call.bp_size
        /\ (call.pre_a # 0 /\ call.post_a = 0) => ~call.bp_changed

\* C30 witness: a position of 2 has become a position of 10 under an order
\* of size 10 (the move is exactly 0.8 of the order) and the leg counts as
\* filled.
C30_Witness ==
    /\ pc = "leg_checked"
    /\ call.pre_a = 2 /\ call.post_a = 10 /\ call.bp_size = 10
    /\ call.bp_changed

\* C31: in close_pair a leg counts as closed exactly when a position existed
\* before and none exists after, or the pre-trade size is positive and at
\* least 0.9 of it is gone; when a venue has no position of the symbol before
\* the trade, close_pair returns failure, sends no order and leaves the Sign
\* Store and its file as they were.
C31_CloseLegClosed ==
    /\ (pc = "close_ret" /\ call.exit = "verified") =>
          /\ call.bp_changed <=>
                \/ (call.pre_a # 0 /\ call.post_a = 0)
                \/ /\ call.pre_a # 0 /\ call.post_a # 0
                   /\ 10 * (Abs(call.pre_a) - Abs(call.post_a)) >= 9 * Abs(call.pre_a)
          /\ call.hl_changed <=>
                \/ (call.pre_b # 0 /\ call.post_b = 0)
                \/ /\ call.pre_b # 0 /\ call.post_b # 0
                   /\ 10 * (Abs(call.pre_b) - Abs(call.post_b)) >= 9 * Abs(call.pre_b)
    /\ (pc = "close_ret" /\ call.exit \notin {"price", "exception"}
           /\ (posA[call.symbol] = 0 \/ posB[call.symbol] = 0)
           /\ call.bp_task = "none") =>
          /\ call.exit = "no_position"
          /\ call.result = "false"
          /\ orders = {}
          /\ funding_diff_signs = call.signs_before
          /\ file = call.file_before

\* C31 witness: a leg of 10 is left at 1 (0.9 of it gone) and counts as
\* closed, while the other leg of 10 is left at 2 and does not.
C31_Witness ==
    /\ pc = "close_ret" /\ call.exit = "verified"
    /\ Abs(call.pre_a) = 10 /\ Abs(call.post_a) = 1 /\ call.bp_changed
    /\ Abs(call.pre_b) = 10 /\ Abs(call.post_b) = 2 /\ ~call.hl_changed

\* C32: the size sent on both legs of open_pair is the candidate's size
\* clamped to [min_volume, max_position_size]: with min_volume at most
\* max_position_size it is never below the first nor above the second, and
\* the two legs always carry the same size.
C32_SizeClamped ==
    pc = "sized" =>
        /\ \A o \in orders : o.size = call.bp_size
        /\ call.bp_size = call.hl_size
        /\ {o.venue : o \in orders} = {"A", "B"}
        /\ (call.max_position_size # NoLimit
               /\ call.min_volume <= call.max_position_size) =>
              /\ call.bp_size >= call.min_volume
              /\ call.bp_size <= call.max_position_size
              /\ call.bp_size =
                    (IF call.available_size < call.min_volume
                     THEN call.min_volume
                     ELSE IF call.available_size > call.max_position_size
                     THEN call.max_position_size
                     ELSE call.available_size)

\* C32 witness: a candidate size below min_volume has been raised to it
\* under a max_position_size above min_volume.
C32_Witness ==
    /\ pc = "sized"
    /\ call.available_size < call.min_volume
    /\ call.max_position_size > call.min_volume
    /\ call.bp_size = call.min_volume

\* C33: for a held pair with no stored price sign, with or without a stored
\* funding sign, the first close evaluation records the current price sign
\* and reports no price sign change, and the next evaluation compares the
\* current price sign with the recorded one.
C33_FirstEvaluationRecordsPriceSign ==
    call.entry_price_diff_sign = NoSign =>
        /\ pc \in {"checked_close", "checked_again"} =>
              price_diff_signs[call.symbol] \in {0 - 1, 1}
        /\ pc = "checked_close" =>
              /\ price_diff_signs[call.symbol] = PriceDiffSign(call.price_diff_percent)
              /\ ~call.price_sign_changed
        /\ pc = "checked_again" =>
              (call.price_sign_changed <=>
                  price_diff_signs[call.symbol] # PriceDiffSign(call.price_diff_percent))

\* the symbols of a candidate list
CandidateSymbols(candidates) == {candidates[i].symbol : i \in 1..Len(candidates)}

\* C34: a symbol held on exactly one venue in the cycle's snapshot is in
\* neither candidate list; open candidates are symbols held on no venue and
\* close candidates are symbols held on both.
C34_OneLegYieldsNoCandidate ==
    /\ \A s \in CandidateSymbols(open_candidates) :
          bp_positions[s] = 0 /\ hl_positions[s] = 0
    /\ \A s \in CandidateSymbols(close_candidates) :
          bp_positions[s] # 0 /\ hl_positions[s] # 0
    /\ \A s \in Syms :
          ((bp_positions[s] # 0) # (hl_positions[s] # 0)) =>
              /\ s \notin CandidateSymbols(open_candidates)
              /\ s \notin CandidateSymbols(close_candidates)

\* C34 witness: the evaluation of the cycle is over, the snapshot shows a
\* symbol on venue A only, the symbol has a stored funding sign and has been
\* evaluated.
C34_Witness ==
    /\ pc = "open" /\ idx = 1
    /\ \E i \in 1..Len(events) :
          /\ events[i].kind = "evaluated"
          /\ bp_positions[events[i].symbol] # 0
          /\ hl_positions[events[i].symbol] = 0
          /\ funding_diff_signs[events[i].symbol] # NoSign

\* the order tasks of the call that have been created and have not finished
TasksInFlight == {venue \in Venues : TaskOf(call, venue) \in {"created", "running"}}

\* the executor calls that have begun and have not returned
CallsInFlight ==
    Cardinality({i \in 1..Len(events) : events[i].kind = "begin"})
        - Cardinality({i \in 1..Len(events) : events[i].kind = "return"})

\* C35: at most one paired execution is in flight: order tasks are pending
\* only while their own call waits in the gather, and when the scheduler is
\* between candidates or at the end of the cycle no call, no order task and
\* no order of a call is left over.
C35_OnePairInFlight ==
    /\ TasksInFlight # {} => (pc = "open_gather" /\ call.op = "open")
    /\ CallsInFlight = (IF call.op = "none" THEN 0 ELSE 1)
    /\ pc \in {"open", "close", "cycle"} =>
          (call = NoCall /\ orders = {} /\ TasksInFlight = {})

\* C35 witness: the first candidate's call has returned and both order calls
\* of the second candidate are running at once.
C35_Witness ==
    /\ pc = "open_gather" /\ idx = 2
    /\ call.bp_task = "running" /\ call.hl_task = "running"
    /\ \E i \in 1..Len(events) : events[i].kind = "return" /\ events[i].op = "open"

\* every position on the venues is a fully filled leg of a pair
EveryOrderFilled ==
    \A s \in Syms :
        (posA[s] # 0 \/ posB[s] # 0) =>
            (Abs(posA[s]) = max_position_size /\ Abs(posB[s]) = max_position_size)

\* C36: with venues that fill every order, the number of distinct symbols
\* held over the two venues never exceeds max_positions_count.
C36_HeldSymbolsWithinCap ==
    EveryOrderFilled =>
        Cardinality(position_symbols(posA, posB)) <= max_positions_count

\* a symbol held on exactly one venue
OneLegged(s) == (posA[s] # 0) # (posB[s] # 0)

\* C37: as long as the cycles go on, a symbol held on one venue only is
\* eventually flat on both venues or held on both.
C37_OneLegEventuallyResolved ==
    ([]<>(pc = "collect")) =>
        \A s \in Syms : (OneLegged(s) /\ pc = "cycle") ~> ~OneLegged(s)

\* C38: once open_pair has returned failure, no venue position changes by
\* an order of that call.
C38_NoFillAfterFailure ==
    [][(pc = "open_ret" /\ call.result = "false") =>
          (posA' = posA /\ posB' = posB)]_vars

\* C39: for a held pair with no stored funding sign the funding condition is
\* false in every evaluation, whatever the funding difference, and under
\* condition_type funding_only the pair is never a close candidate.
C39_NoFundingSignNoFundingClose ==
    (pc \in {"checked_close", "checked_again"}
        /\ funding_diff_signs[call.symbol] = NoSign) =>
        /\ ~call.funding_condition_met
        /\ call.config.condition_type = "funding_only" => ~call.should_close

\* C39 witness: the second evaluation of a pair without a stored funding
\* sign, under funding_only with the sign change condition configured, a
\* funding difference over the close threshold and the slippage guard
\* passed, has decided not to close.
C39_Witness ==
    /\ pc = "checked_again"
    /\ funding_diff_signs[call.symbol] = NoSign
    /\ call.config.condition_type = "funding_only"
    /\ call.config.funding_diff_sign_change
    /\ Abs(call.funding_diff) >= close_min_funding_diff
    /\ call.slippage_condition_met
    /\ ~call.should_close

\* the events of the cycle so far
CycleEvents == {events[j] : j \in 1..Len(events)}

\* C40: whatever the calls of a batch return or raise, once the open batch
\* is left every open candidate of the cycle has been executed, and once the
\* close batch is left every close candidate has.
C40_BatchGoesOn ==
    /\ pc \in {"close", "close_ret"} =>
          \A i \in 1..Len(open_candidates) :
              /\ Event("begin", "open", open_candidates[i].symbol) \in CycleEvents
              /\ Event("return", "open", open_candidates[i].symbol) \in CycleEvents
    /\ (pc = "close" /\ idx > Len(close_candidates)) =>
          \A i \in 1..Len(close_candidates) :
              /\ Event("begin", "close", close_candidates[i].symbol) \in CycleEvents
              /\ Event("return", "close", close_candidates[i].symbol) \in CycleEvents

\* C40 witness: the open of the first of two candidates has failed (the
\* venues hold nothing of it), the open of the second was executed after it
\* and filled on both venues, and the batches are done.
C40_Witness ==
    /\ pc = "close" /\ idx > Len(close_candidates)
    /\ Len(open_candidates) = 2
    /\ posA[open_candidates[1].symbol] = 0 /\ posB[open_candidates[1].symbol] = 0
    /\ posA[open_candidates[2].symbol] # 0 /\ posB[open_candidates[2].symbol] # 0
    /\ Event("return", "open", open_candidates[1].symbol) \in CycleEvents

====
